---- MODULE Spec2Model ----
(***************************************************************************)
(* Model of the text-generation orchestration layer of CHATTONER-Server.   *)
(*                                                                         *)
(* FinetuneChain (langchain_pipeline/chains/finetune_chain.py): the        *)
(* routing decision (_should_use_lora and the force_convert test at the    *)
(* head of convert_to_formal), the primary stage (_generate_with_lora),    *)
(* the refinement stage (_refine_with_gpt) and the result dictionaries     *)
(* convert_to_formal returns.                                              *)
(*                                                                         *)
(* RAGChain (langchain_pipeline/chains/rag_chain.py): the lazy service     *)
(* cache (_get_service), the index load (_load_vectorstore), ask,          *)
(* ask_with_styles and process_user_feedback.                              *)
(*                                                                         *)
(* The two chains are separate objects; Spec runs the FinetuneChain and    *)
(* SpecRag the RAGChain, each leaving the other chain's variables alone.   *)
(* SpecService runs the callers of get_rag_service (api/v1/endpoints/      *)
(* rag.py) and SpecConc several calls in flight on the two chains at once. *)
(*                                                                         *)
(* Python values are represented as follows.                               *)
(*   dict            a function whose DOMAIN is the set of keys present    *)
(*   d.get(k, dflt)  Get(d, k, dflt)                                       *)
(*   None (numeric)  the definition None; comparing it with a number       *)
(*                   raises TypeError, as "None >= 5" does in Python 3     *)
(*   exceptions      records [raised |-> TRUE, ...] returned by the        *)
(*                   operators, and the variable exception for one that    *)
(*                   leaves convert_to_formal                              *)
(* The "timestamp" key of a success result (datetime.now()) is left out.   *)
(***************************************************************************)
EXTENDS Integers, Sequences, FiniteSets, TLC

VARIABLES
    is_inference_server_available, \* FinetuneChain.is_inference_server_available
    services_available,            \* FinetuneChain.services_available
    endpoint_up,       \* the specialized endpoint answers its health check now
    pc,                \* position of the convert_to_formal coroutine
    entry,             \* public method the caller used for the current request
    input_text,        \* arguments of the current request
    user_profile,
    context,
    force_convert,
    should_convert,    \* locals of convert_to_formal
    conversion_reason,
    lora_output,
    method,
    lora_response,     \* what the POST /generate of this request came back with
    refinement_prompt, \* the prompt handed to openai_service._convert_single_style
    trace,             \* collaborator calls made by the current request, in order
    result,            \* the dictionary returned to the caller
    exception,         \* the exception that left convert_to_formal, if any
    refine_status,     \* how _refine_with_gpt ended for the current request
    \* RAGChain
    rag_services_available, \* RAGChain.services_available
    services_cache,    \* keys of RAGChain._services_cache
    vectorstore,       \* RAGChain.vectorstore is not None
    retriever,         \* RAGChain.retriever is not None
    is_initialized,    \* RAGChain.is_initialized
    rag_pc,            \* position of the current RAGChain call
    rag_op,            \* the RAGChain method called
    rag_args,          \* its arguments
    rag_docs,          \* passages retrieved for the current call
    retrieval_status,  \* how the retriever answered the current call
    adapt_status,      \* how adapt_user_style answered the current call
    feedback_status,   \* how the engine's feedback mapping answered it
    rag_trace,         \* collaborator calls made by the current call, in order
    rag_result,        \* the dictionary returned to the caller
    rag_exception,     \* the exception that left the call, if any
    convert_response,  \* what convert_text answered the current call
    \* get_rag_service and its callers (threads of the server's pool)
    instance,          \* _rag_service_instance: 0 for None, else the object's number
    constructions,     \* how many RAGService objects have been constructed
    callers,           \* each caller's position in get_rag_service and what it holds
    \* calls in flight at the same time on one FinetuneChain and one RAGChain
    calls              \* each call's own frame: arguments, locals, answers, result

vars == <<is_inference_server_available, services_available, endpoint_up, pc, entry,
          input_text, user_profile, context, force_convert, should_convert,
          conversion_reason, lora_output, method, lora_response,
          refinement_prompt, trace, result, exception, refine_status,
          rag_services_available, services_cache, vectorstore, retriever,
          is_initialized, rag_pc, rag_op, rag_args, rag_docs,
          retrieval_status, adapt_status, feedback_status, rag_trace,
          rag_result, rag_exception, convert_response, instance,
          constructions, callers, calls>>

finetune_vars == <<is_inference_server_available, services_available, endpoint_up, pc,
                   entry, input_text, user_profile, context, force_convert,
                   should_convert, conversion_reason, lora_output, method,
                   lora_response, refinement_prompt, trace, result, exception,
                   refine_status>>

\* Everything a FinetuneChain request leaves alone.
rag_vars == <<rag_services_available, services_cache, vectorstore, retriever,
              is_initialized, rag_pc, rag_op, rag_args, rag_docs,
              retrieval_status, adapt_status, feedback_status, rag_trace,
              rag_result, rag_exception, convert_response, instance,
              constructions, callers, calls>>

\* What neither a FinetuneChain request nor a RAGChain call touches.
other_vars == <<instance, constructions, callers, calls>>

-----------------------------------------------------------------------------
(* Bounds and input domains *)

\* Largest level value enumerated (the API accepts 1..10; the thresholds
\* of the routing decision are 4 and 5, those of the style choice 2 and 4).
MaxLevel == 5

\* Python's None as the value of a level key (ProfileRequest declares the
\* session levels Optional[int] with default None and model_dump() keeps them).
None == -1

NoText == "<none>"

Levels == 1..MaxLevel
LevelValues == Levels \cup {None}

Contexts == {"business", "report", "personal", "casual"}

Texts == {"hi", "see you"}

\* Texts the specialized endpoint can answer with; one of them equals an input.
LoraTexts == {"Greetings.", "hi"}

GptTexts == {"Dear Sir, greetings."}

\* The dicts that either lack key k or hold one of the values under it.
Optional(k, values) == {<<>>} \cup {k :> v : v \in values}

\* Profiles that exercise the routing decision.
FormalityProfiles ==
    {m @@ s @@ b : m \in Optional("formal_document_mode", BOOLEAN),
                   s \in Optional("sessionFormalityLevel", LevelValues),
                   b \in Optional("baseFormalityLevel", LevelValues)}

\* Profiles that exercise the style choice of the refinement stage.
DirectnessProfiles ==
    {m @@ s @@ b : m \in Optional("formal_document_mode", {TRUE}),
                   s \in Optional("sessionDirectnessLevel", LevelValues),
                   b \in Optional("baseDirectnessLevel", LevelValues)}

Profiles == FormalityProfiles \cup DirectnessProfiles

-----------------------------------------------------------------------------
(* Python helpers *)

\* dict.get(key, default)
Get(d, k, default) == IF k \in DOMAIN d THEN d[k] ELSE default

\* "a >= b" on a level value: None on the left raises TypeError.
GeRaises(a) == a = None

Returned(v) == [raised |-> FALSE, value |-> v]
Raised(kind) == [raised |-> TRUE, value |-> kind]

NoException == "none"
NoResult == [pending |-> TRUE]
NoResponse == [kind |-> "none", text |-> NoText]
NoPrompt == [original_text |-> NoText, lora_output |-> NoText,
             instruction |-> NoText]

-----------------------------------------------------------------------------
(* Environment: what the collaborators can answer *)

\* GET /health at construction: status 200, another status, or an
\* httpx.HTTPError (connection refused, timeout).
HealthResponses == {"200", "503", "HTTPError"}

\* POST /generate: a 2xx body with a "result" field, or one of the failures.
\* transport_error, timeout and status_error are httpx.HTTPError subclasses
\* (raise_for_status raises HTTPStatusError); bad_json and no_result_field
\* raise ValueError / KeyError while the body is processed.
HTTPErrorKinds == {"transport_error", "timeout", "status_error"}
BodyErrorKinds == {"bad_json", "no_result_field"}

LoraResponses ==
    {[kind |-> "ok", text |-> t] : t \in LoraTexts}
    \cup {[kind |-> k, text |-> NoText] : k \in HTTPErrorKinds \cup BodyErrorKinds}

\* prompt_engineer.generate_conversion_prompts: raises, or returns a dict
\* holding instructions for some of the style keys.
StyleKeys == {"direct", "gentle", "neutral"}
PromptOutcomes ==
    {[raised |-> TRUE, keys |-> {}]}
    \cup {[raised |-> FALSE, keys |-> ks] : ks \in {StyleKeys, {"neutral"}, {}}}

\* openai_service._convert_single_style: raises, or returns a text.
GptOutcomes ==
    {[raised |-> TRUE, text |-> NoText]}
    \cup {[raised |-> FALSE, text |-> t] : t \in GptTexts}

-----------------------------------------------------------------------------
(* FinetuneChain *)

_check_inference_server(response) == response = "200"

\* Mutant: the formal_document_mode test is missing.
_should_use_lora_no_mode(profile, ctx) ==
    LET formality_level == Get(profile, "sessionFormalityLevel",
                               Get(profile, "baseFormalityLevel", 3))
    IN  IF GeRaises(formality_level) THEN Raised("TypeError")
        ELSE IF formality_level >= 5 THEN Returned(TRUE)
        ELSE IF formality_level >= 4 /\ ctx \in {"business", "report"}
             THEN Returned(TRUE)
        ELSE Returned(FALSE)

\* Mutant: the base level is looked up before the session level.
_should_use_lora_base_first(profile, ctx) ==
    IF Get(profile, "formal_document_mode", FALSE) THEN Returned(TRUE)
    ELSE
    LET formality_level == Get(profile, "baseFormalityLevel",
                               Get(profile, "sessionFormalityLevel", 3))
    IN  IF GeRaises(formality_level) THEN Raised("TypeError")
        ELSE IF formality_level >= 5 THEN Returned(TRUE)
        ELSE IF formality_level >= 4 /\ ctx \in {"business", "report"}
             THEN Returned(TRUE)
        ELSE Returned(FALSE)

\* Mutant: "> 5" instead of ">= 5".
_should_use_lora_gt5(profile, ctx) ==
    IF Get(profile, "formal_document_mode", FALSE) THEN Returned(TRUE)
    ELSE
    LET formality_level == Get(profile, "sessionFormalityLevel",
                               Get(profile, "baseFormalityLevel", 3))
    IN  IF GeRaises(formality_level) THEN Raised("TypeError")
        ELSE IF formality_level > 5 THEN Returned(TRUE)
        ELSE IF formality_level >= 4 /\ ctx \in {"business", "report"}
             THEN Returned(TRUE)
        ELSE Returned(FALSE)

\* Mutant: "report" is missing from the list of formal contexts.
_should_use_lora_business_only(profile, ctx) ==
    IF Get(profile, "formal_document_mode", FALSE) THEN Returned(TRUE)
    ELSE
    LET formality_level == Get(profile, "sessionFormalityLevel",
                               Get(profile, "baseFormalityLevel", 3))
    IN  IF GeRaises(formality_level) THEN Raised("TypeError")
        ELSE IF formality_level >= 5 THEN Returned(TRUE)
        ELSE IF formality_level >= 4 /\ ctx \in {"business"}
             THEN Returned(TRUE)
        ELSE Returned(FALSE)

\* Mutant: the context rule starts at level 3 instead of 4.
_should_use_lora_from3(profile, ctx) ==
    IF Get(profile, "formal_document_mode", FALSE) THEN Returned(TRUE)
    ELSE
    LET formality_level == Get(profile, "sessionFormalityLevel",
                               Get(profile, "baseFormalityLevel", 3))
    IN  IF GeRaises(formality_level) THEN Raised("TypeError")
        ELSE IF formality_level >= 5 THEN Returned(TRUE)
        ELSE IF formality_level >= 3 /\ ctx \in {"business", "report"}
             THEN Returned(TRUE)
        ELSE Returned(FALSE)

\* FinetuneChain._should_use_lora: Returned(TRUE/FALSE), or Raised("TypeError")
\* when the level it compares is None.
_should_use_lora(profile, ctx) ==
    IF Get(profile, "formal_document_mode", FALSE) THEN Returned(TRUE)
    ELSE
    LET formality_level == Get(profile, "sessionFormalityLevel",
                               Get(profile, "baseFormalityLevel", 3))
    IN  IF GeRaises(formality_level) THEN Raised("TypeError")
        ELSE IF formality_level >= 5 THEN Returned(TRUE)
        ELSE IF formality_level >= 4 /\ ctx \in {"business", "report"}
             THEN Returned(TRUE)
        ELSE Returned(FALSE)

\* Mutant: the profile is consulted even for an explicit request.
DecideProfileFirst(profile, ctx, force) ==
    LET r == _should_use_lora(profile, ctx)
    IN  IF r.raised
        THEN [raised |-> TRUE, should_convert |-> FALSE,
              conversion_reason |-> r.value]
        ELSE [raised |-> FALSE, should_convert |-> r.value,
              conversion_reason |->
                  IF ~r.value THEN "condition_not_met"
                  ELSE IF force THEN "user_explicit_request"
                  ELSE "auto_condition"]

\* The routing decision at the head of convert_to_formal: the pair
\* (should_convert, conversion_reason), or the exception _should_use_lora raised
\* (conversion_reason then holds the exception's kind).
Decide(profile, ctx, force) ==
    IF force
    THEN [raised |-> FALSE, should_convert |-> TRUE,
          conversion_reason |-> "user_explicit_request"]
    ELSE LET r == _should_use_lora(profile, ctx)
         IN  IF r.raised
             THEN [raised |-> TRUE, should_convert |-> FALSE,
                   conversion_reason |-> r.value]
             ELSE [raised |-> FALSE, should_convert |-> r.value,
                   conversion_reason |->
                       IF r.value THEN "auto_condition" ELSE "condition_not_met"]

\* Mutant: only httpx.HTTPError is caught.
_generate_with_lora_http_only(text, response) ==
    IF ~is_inference_server_available THEN Raised("Exception")
    ELSE IF response.kind = "ok" THEN Returned(response.text)
    ELSE IF response.kind \in HTTPErrorKinds THEN Returned(text)
    ELSE Raised(response.kind)

\* FinetuneChain._generate_with_lora, given what the endpoint answers.
_generate_with_lora(text, response) ==
    IF ~is_inference_server_available THEN Raised("Exception")
    ELSE IF response.kind = "ok" THEN Returned(response.text)
    ELSE IF response.kind \in HTTPErrorKinds THEN Returned(text)
    ELSE Returned(text)

\* Style selection of _refine_with_gpt: the key, or the TypeError raised by
\* comparing None.
StyleKey(profile) ==
    LET directness_level == Get(profile, "sessionDirectnessLevel",
                                Get(profile, "baseDirectnessLevel", 3))
    IN  IF GeRaises(directness_level) THEN Raised("TypeError")
        ELSE IF directness_level >= 4 THEN Returned("direct")
        ELSE IF directness_level <= 2 THEN Returned("gentle")
        ELSE Returned("neutral")

\* prompts.get(style_key, prompts.get('neutral', '')): the key whose
\* instruction text is embedded in the prompt, "" when there is none.
Instruction(prompt_keys, style_key) ==
    IF style_key \in prompt_keys THEN style_key
    ELSE IF "neutral" \in prompt_keys THEN "neutral"
    ELSE ""

\* _refine_with_gpt calling the generation service again when it raised.
_refine_with_gpt_retrying(lora_out, original_text, profile, ctx, pe, gpt) ==
    IF ~services_available
    THEN [value |-> lora_out, events |-> <<"refine">>, prompt |-> NoPrompt,
          status |-> "skipped"]
    ELSE IF pe.raised \/ StyleKey(profile).raised
    THEN [value |-> lora_out, events |-> <<"refine", "prompt_engineer">>,
          prompt |-> NoPrompt, status |-> "failed"]
    ELSE LET refinement == [original_text |-> original_text,
                            lora_output |-> lora_out,
                            instruction |->
                                Instruction(pe.keys, StyleKey(profile).value)]
         IN  [value |-> IF gpt.raised THEN lora_out ELSE gpt.text,
              events |-> IF gpt.raised
                         THEN <<"refine", "prompt_engineer", "gpt_call", "gpt_call">>
                         ELSE <<"refine", "prompt_engineer", "gpt_call">>,
              prompt |-> refinement,
              status |-> IF gpt.raised THEN "failed" ELSE "refined"]

\* Mutant: a failed refinement falls back to the original text, not to the
\* primary-stage output.
_refine_with_gpt_original(lora_out, original_text, profile, ctx, pe, gpt) ==
    IF ~services_available
    THEN [value |-> lora_out, events |-> <<"refine">>, prompt |-> NoPrompt,
          status |-> "skipped"]
    ELSE IF pe.raised \/ StyleKey(profile).raised
    THEN [value |-> original_text, events |-> <<"refine", "prompt_engineer">>,
          prompt |-> NoPrompt, status |-> "failed"]
    ELSE LET refinement == [original_text |-> original_text,
                            lora_output |-> lora_out,
                            instruction |->
                                Instruction(pe.keys, StyleKey(profile).value)]
         IN  [value |-> IF gpt.raised THEN original_text ELSE gpt.text,
              events |-> <<"refine", "prompt_engineer", "gpt_call">>,
              prompt |-> refinement,
              status |-> IF gpt.raised THEN "failed" ELSE "refined"]

\* FinetuneChain._refine_with_gpt.  pe and gpt are what the Prompt Template
\* Service and the Language Generation Service answer.  The value is the text
\* returned, the collaborator calls made and the prompt sent (NoPrompt when
\* the generation service was not called).  Every exception is caught.
_refine_with_gpt(lora_out, original_text, profile, ctx, pe, gpt) ==
    IF ~services_available
    THEN [value |-> lora_out, events |-> <<"refine">>, prompt |-> NoPrompt,
          status |-> "skipped"]
    ELSE IF pe.raised \/ StyleKey(profile).raised
    THEN [value |-> lora_out, events |-> <<"refine", "prompt_engineer">>,
          prompt |-> NoPrompt, status |-> "failed"]
    ELSE LET refinement == [original_text |-> original_text,
                            lora_output |-> lora_out,
                            instruction |->
                                Instruction(pe.keys, StyleKey(profile).value)]
         IN  [value |-> IF gpt.raised THEN lora_out ELSE gpt.text,
              events |-> <<"refine", "prompt_engineer", "gpt_call">>,
              prompt |-> refinement,
              status |-> IF gpt.raised THEN "failed" ELSE "refined"]

\* Mutant: a rejected request is reported as an error.
RejectedResultAsError(reason) ==
    [success |-> FALSE,
     error |-> "Does not meet formal document conversion conditions.",
     converted_text |-> "",
     method |-> "error",
     reason |-> reason]

\* The dictionary returned when the conversion conditions are not met.
RejectedResult(reason) ==
    [success |-> FALSE,
     error |-> "Does not meet formal document conversion conditions.",
     converted_text |-> "",
     method |-> "none",
     reason |-> reason]

\* Mutant: the forced field is hard-wired.
SuccessResultForcedTrue(final_output, lora_out, meth, reason, force) ==
    [success |-> TRUE,
     converted_text |-> final_output,
     lora_output |-> IF is_inference_server_available THEN lora_out ELSE NoText,
     method |-> meth,
     reason |-> reason,
     forced |-> TRUE]

\* The dictionary returned after both stages.
SuccessResult(final_output, lora_out, meth, reason, force) ==
    [success |-> TRUE,
     converted_text |-> final_output,
     lora_output |-> IF is_inference_server_available THEN lora_out ELSE NoText,
     method |-> meth,
     reason |-> reason,
     forced |-> force]

\* The dictionary returned by the except clause of convert_to_formal.
ErrorResult(message, reason) ==
    [success |-> FALSE,
     error |-> "Error occurred during conversion: " \o message,
     converted_text |-> "",
     method |-> "error",
     reason |-> reason]

-----------------------------------------------------------------------------
(* Actions *)

\* No RAGChain has been constructed (used while the FinetuneChain runs).
\* No get_rag_service caller and no concurrent call exists.
OthersQuiet ==
    /\ instance = 0
    /\ constructions = 0
    /\ callers = <<>>
    /\ calls = <<>>

RagQuiet ==
    /\ rag_services_available = FALSE
    /\ services_cache = {}
    /\ vectorstore = FALSE
    /\ retriever = FALSE
    /\ is_initialized = FALSE
    /\ rag_pc = "absent"
    /\ rag_op = "none"
    /\ rag_args = <<>>
    /\ rag_docs = <<>>
    /\ retrieval_status = "not_called"
    /\ adapt_status = "not_called"
    /\ feedback_status = "not_called"
    /\ rag_trace = <<>>
    /\ rag_result = NoResult
    /\ rag_exception = NoException
    /\ convert_response = NoResult
    /\ OthersQuiet

\* State after FinetuneChain.__init__: the two flags are set, no request yet.
Init ==
    /\ endpoint_up \in BOOLEAN
    /\ \E h \in HealthResponses :
           /\ h = "200" => endpoint_up
           /\ is_inference_server_available = _check_inference_server(h)
    /\ services_available \in BOOLEAN
    /\ pc = "idle"
    /\ entry = "none"
    /\ input_text = NoText
    /\ user_profile = <<>>
    /\ context = NoText
    /\ force_convert = FALSE
    /\ should_convert = FALSE
    /\ conversion_reason = NoText
    /\ lora_output = NoText
    /\ method = NoText
    /\ lora_response = NoResponse
    /\ refinement_prompt = NoPrompt
    /\ trace = <<>>
    /\ result = NoResult
    /\ exception = NoException
    /\ refine_status = "not_run"
    /\ RagQuiet

\* convert_to_formal from its first line to its first suspension point (the
\* POST to the specialized endpoint) or, when nothing is awaited, to its return.
\* name is the public method the caller invoked.
Enter(name, text, profile, ctx, force) ==
    /\ pc = "idle"
    /\ entry' = name
    /\ input_text' = text
    /\ user_profile' = profile
    /\ context' = ctx
    /\ force_convert' = force
    /\ lora_response' = NoResponse
    /\ UNCHANGED <<is_inference_server_available, services_available,
                   endpoint_up>>
    /\ UNCHANGED rag_vars
    /\ LET d == Decide(profile, ctx, force)
       IN  IF d.raised
           THEN \* _should_use_lora raised outside the try block
                /\ exception' = d.conversion_reason
                /\ should_convert' = FALSE
                /\ conversion_reason' = NoText
                /\ lora_output' = NoText
                /\ method' = NoText
                /\ refinement_prompt' = NoPrompt
                /\ trace' = <<>>
                /\ result' = NoResult
                /\ refine_status' = "not_run"
                /\ pc' = "done"
           ELSE
           /\ exception' = NoException
           /\ should_convert' = d.should_convert
           /\ conversion_reason' = d.conversion_reason
           /\ IF ~d.should_convert
              THEN /\ lora_output' = NoText
                   /\ method' = NoText
                   /\ refinement_prompt' = NoPrompt
                   /\ trace' = <<>>
                   /\ result' = RejectedResult(d.conversion_reason)
                   /\ refine_status' = "not_run"
                   /\ pc' = "done"
              ELSE IF is_inference_server_available
              THEN /\ lora_output' = NoText
                   /\ method' = NoText
                   /\ refinement_prompt' = NoPrompt
                   /\ trace' = <<"lora_post">>
                   /\ result' = NoResult
                   /\ refine_status' = "not_run"
                   /\ pc' = "awaiting_lora"
              ELSE \E pe \in PromptOutcomes, gpt \in GptOutcomes :
                   LET r == _refine_with_gpt(text, text, profile, ctx, pe, gpt)
                   IN  /\ lora_output' = text
                       /\ method' = "gpt_only"
                       /\ refinement_prompt' = r.prompt
                       /\ trace' = r.events
                       /\ result' = SuccessResult(r.value, text, "gpt_only",
                                                  d.conversion_reason, force)
                       /\ refine_status' = r.status
                       /\ pc' = "done"

convert_to_formal(text, profile, ctx, force) ==
    Enter("convert_to_formal", text, profile, ctx, force)

convert_by_user_request(text, profile, ctx) ==
    Enter("convert_by_user_request", text, profile, ctx, TRUE)

convert_to_business(text, profile) ==
    Enter("convert_to_business", text, profile, "business", TRUE)

convert_to_report(text, profile) ==
    Enter("convert_to_report", text, profile, "report", TRUE)

\* Whether _generate_with_lora suspends once more when it leaves
\* "async with httpx.AsyncClient": it does when a response came back and the
\* connection that carried it is still open (keep_alive), so that the exit of
\* the block awaits its close.  When the endpoint closed the connection with
\* its answer (header "Connection: close"), or the POST itself raised
\* (transport error, timeout), the block is left without suspending.
ClosesConnection(response, keep_alive) ==
    /\ keep_alive
    /\ response.kind \in {"ok", "status_error"} \cup BodyErrorKinds

\* convert_to_formal from the point where the "async with" block of
\* _generate_with_lora has been left to its return: the return or except
\* clause of _generate_with_lora, the refinement and the result.  response is
\* what the POST of this request came back with.
FinishConvert(response, pe, gpt) ==
    /\ LET g == _generate_with_lora(input_text, response)
       IN  IF g.raised
           THEN /\ result' = ErrorResult(g.value, conversion_reason)
                /\ UNCHANGED <<lora_output, method, refinement_prompt, trace,
                               refine_status>>
           ELSE LET r == _refine_with_gpt(g.value, input_text, user_profile,
                                          context, pe, gpt)
                IN  /\ lora_output' = g.value
                    /\ method' = "lora_gpt"
                    /\ refinement_prompt' = r.prompt
                    /\ trace' = trace \o r.events
                    /\ result' = SuccessResult(r.value, g.value, "lora_gpt",
                                               conversion_reason, force_convert)
                    /\ refine_status' = r.status
    /\ pc' = "done"

\* convert_to_formal from the answer of the specialized endpoint to its next
\* suspension point (the exit of the "async with" block, line 111, when the
\* connection is still open) or, when the connection was closed with the
\* answer or the POST raised, to its return.
LoraRespond(response, keep_alive, pe, gpt) ==
    /\ pc = "awaiting_lora"
    /\ response.kind = "ok" => endpoint_up
    /\ lora_response' = response
    /\ IF ClosesConnection(response, keep_alive)
       THEN /\ pc' = "closing_client"
            /\ UNCHANGED <<lora_output, method, refinement_prompt, trace,
                           result, refine_status>>
       ELSE FinishConvert(response, pe, gpt)
    /\ UNCHANGED rag_vars
    /\ UNCHANGED <<is_inference_server_available, services_available,
                   endpoint_up, entry, input_text, user_profile, context,
                   force_convert, should_convert, conversion_reason, exception>>

\* convert_to_formal resumed after the client was closed, to its return.
ClientClosed(pe, gpt) ==
    /\ pc = "closing_client"
    /\ FinishConvert(lora_response, pe, gpt)
    /\ UNCHANGED rag_vars
    /\ UNCHANGED <<is_inference_server_available, services_available,
                   endpoint_up, entry, input_text, user_profile, context,
                   force_convert, should_convert, conversion_reason, exception,
                   lora_response>>

\* get_status probing the endpoint again and storing the answer.
get_status_probing ==
    /\ pc = "idle"
    /\ entry' = "get_status"
    /\ is_inference_server_available' = endpoint_up
    /\ trace' = <<"health_probe">>
    /\ result' = [lora_status |-> IF endpoint_up THEN "ready" ELSE "not_ready",
                  services_available |-> services_available,
                  base_model_loaded |-> endpoint_up]
    /\ pc' = "status_done"
    /\ UNCHANGED <<services_available, endpoint_up, input_text, user_profile,
                   context, force_convert, should_convert, conversion_reason,
                   lora_output, method, lora_response, refinement_prompt,
                   exception, refine_status>>
    /\ UNCHANGED rag_vars

\* FinetuneChain.get_status (synchronous): reports the two flags as they are.
get_status ==
    /\ pc = "idle"
    /\ entry' = "get_status"
    /\ trace' = <<>>
    /\ result' = [lora_status |-> IF is_inference_server_available
                                  THEN "ready" ELSE "not_ready",
                  services_available |-> services_available,
                  base_model_loaded |-> is_inference_server_available]
    /\ pc' = "status_done"
    /\ UNCHANGED <<is_inference_server_available, services_available,
                   endpoint_up, input_text, user_profile, context,
                   force_convert, should_convert, conversion_reason,
                   lora_output, method, lora_response, refinement_prompt,
                   exception, refine_status>>
    /\ UNCHANGED rag_vars

\* The specialized endpoint goes down or comes back, at any moment.
EndpointChanges ==
    /\ pc # "absent"
    /\ endpoint_up' = ~endpoint_up
    /\ UNCHANGED <<is_inference_server_available, services_available, pc,
                   entry, input_text, user_profile, context, force_convert,
                   should_convert, conversion_reason, lora_output, method,
                   lora_response, refinement_prompt, trace, result, exception,
                   refine_status>>
    /\ UNCHANGED rag_vars

\* The caller takes the result (or the exception) and the coroutine's frame is
\* dropped; the chain is ready for the next request.
Return ==
    /\ pc \in {"done", "status_done"}
    /\ pc' = "idle"
    /\ entry' = "none"
    /\ input_text' = NoText
    /\ user_profile' = <<>>
    /\ context' = NoText
    /\ force_convert' = FALSE
    /\ should_convert' = FALSE
    /\ conversion_reason' = NoText
    /\ lora_output' = NoText
    /\ method' = NoText
    /\ lora_response' = NoResponse
    /\ refinement_prompt' = NoPrompt
    /\ trace' = <<>>
    /\ result' = NoResult
    /\ exception' = NoException
    /\ refine_status' = "not_run"
    /\ UNCHANGED <<is_inference_server_available, services_available,
                   endpoint_up>>
    /\ UNCHANGED rag_vars

\* The guards on pc repeat those of the actions, ahead of the quantifiers.
Next ==
    \/ /\ pc = "idle"
       /\ \E t \in Texts, p \in Profiles, c \in Contexts, f \in BOOLEAN :
              convert_to_formal(t, p, c, f)
    \/ /\ pc = "idle"
       /\ \E t \in Texts, p \in Profiles, c \in Contexts :
              convert_by_user_request(t, p, c)
    \/ /\ pc = "idle"
       /\ \E t \in Texts, p \in Profiles : convert_to_business(t, p)
    \/ /\ pc = "idle"
       /\ \E t \in Texts, p \in Profiles : convert_to_report(t, p)
    \/ /\ pc = "awaiting_lora"
       /\ \E r \in LoraResponses, keep_alive \in BOOLEAN,
             pe \in PromptOutcomes, gpt \in GptOutcomes :
              LoraRespond(r, keep_alive, pe, gpt)
    \/ /\ pc = "closing_client"
       /\ \E pe \in PromptOutcomes, gpt \in GptOutcomes : ClientClosed(pe, gpt)
    \/ get_status
    \/ EndpointChanges
    \/ Return

Spec == Init /\ [][Next]_vars

-----------------------------------------------------------------------------
(* RAGChain: inputs and what its collaborators can answer *)

\* Most passages one retrieval returns in the model (the retriever is built
\* with k = 5).
MaxDocs == 2

Queries == {"What is FAISS?"}

RagContexts == {"personal", ""}

\* context of ask: None, or a string that may be padded or all whitespace.
AskContexts ==
    RagContexts \cup {NoText, " personal ", "  ", "\n", "personal ", ""}

RagProfiles == {<<>>, [userId |-> "u1"]}

\* rating: None or a number of stars.
Ratings == {None, 1, 5}

SelectedVersions == {"direct", "neutral"}

FeedbackTexts == {"too stiff"}

ShortContent == "FAISS is a library for similarity search."

\* 120 characters, longer than the 100 kept in a citation preview.
LongContent ==
    "0123456789012345678901234567890123456789012345678901234567890123456789012345678901234567890123456789ABCDEFGHIJKLMNOPQRST"

\* Passages (page_content, metadata): the metadata may lack "source".
Passages ==
    {[content |-> ShortContent, metadata |-> [source |-> "faiss.txt"]],
     [content |-> LongContent, metadata |-> [source |-> "guide.pdf"]],
     [content |-> LongContent, metadata |-> <<>>]}

DocLists == UNION {[1..n -> Passages] : n \in 0..MaxDocs}

\* retriever.get_relevant_documents: raises, or returns a list of passages.
RetrievalOutcomes ==
    {[raised |-> TRUE, message |-> "index corrupted", docs |-> <<>>]}
    \cup {[raised |-> FALSE, message |-> "", docs |-> d] : d \in DocLists}

EmptyVariants == [direct |-> "", gentle |-> "", neutral |-> ""]
FullVariants == [direct |-> "FAISS: vector search.",
                 gentle |-> "FAISS is, if I may, a vector search library.",
                 neutral |-> "FAISS is a vector search library."]
PartialVariants == [direct |-> "FAISS: vector search.", gentle |-> "",
                    neutral |-> ""]

\* Dictionaries ConversionService.convert_text can return.
EngineResults ==
    {[success |-> TRUE, converted_texts |-> FullVariants,
      metadata |-> [model_used |-> "gpt-4o"]],
     [success |-> TRUE, converted_texts |-> FullVariants],
     [success |-> FALSE, converted_texts |-> PartialVariants,
      error |-> "conversion failed", metadata |-> [model_used |-> "gpt-4o"]],
     [success |-> FALSE, converted_texts |-> EmptyVariants]}

\* An exception with its str(): the message may be empty.
Exceptions == {[raised |-> TRUE, message |-> "boom"],
               [raised |-> TRUE, message |-> ""]}

ConvertOutcomes ==
    {e @@ [result |-> <<>>] : e \in Exceptions}
    \cup {[raised |-> FALSE, message |-> "", result |-> r] : r \in EngineResults}

\* UserPreferencesService.adapt_user_style: raises, or reports success or failure.
AdaptOutcomes ==
    {e @@ [success |-> FALSE] : e \in Exceptions}
    \cup {[raised |-> FALSE, message |-> "", success |-> b] : b \in BOOLEAN}

\* Dictionaries ConversionService.process_user_feedback can return.
FeedbackResults ==
    {[success |-> TRUE, updated_profile |-> [userId |-> "u1", adjusted |-> TRUE],
      style_adjustments |-> [formality |-> 1]],
     [success |-> FALSE, error |-> "no adjustment found"],
     [success |-> FALSE]}

FeedbackOutcomes ==
    {e @@ [result |-> <<>>] : e \in Exceptions}
    \cup {[raised |-> FALSE, message |-> "", result |-> r] : r \in FeedbackResults}

\* RetrievalQA.invoke inside ask: raises, or returns an answer and its passages.
QaOutcomes ==
    {e @@ [answer |-> "", source_documents |-> <<>>] : e \in Exceptions}
    \cup {[raised |-> FALSE, message |-> "", answer |-> "FAISS is a library.",
           source_documents |-> d] : d \in DocLists}

\* load_vector_store and as_retriever inside _load_vectorstore.
LoadOutcomes == {"loaded", "missing", "load_raised", "retriever_raised"}

\* ingest_documents_from_folder: raises, returns nothing (or a pair without a
\* store), or returns a store with the documents it split.
Folders == {"docs"}

IngestOutcomes ==
    {e @@ [store |-> FALSE, count |-> 0] : e \in Exceptions}
    \cup {[raised |-> FALSE, message |-> "", store |-> FALSE, count |-> 0]}
    \cup {[raised |-> FALSE, message |-> "", store |-> TRUE, count |-> n] :
              n \in 0..MaxDocs}

-----------------------------------------------------------------------------
(* RAGChain *)

\* _get_service handing out a service whose constructor raised.
_get_service_ignoring_failure(service_name, constructed) ==
    IF service_name \in services_cache
    THEN [service |-> TRUE, cache |-> services_cache, loaded |-> FALSE]
    ELSE IF ~rag_services_available
    THEN [service |-> FALSE, cache |-> services_cache, loaded |-> FALSE]
    ELSE [service |-> TRUE,
          cache |-> IF constructed THEN services_cache \cup {service_name}
                    ELSE services_cache,
          loaded |-> TRUE]

\* RAGChain._get_service.  constructed tells whether the service's constructor
\* succeeds if it is run.  Yields whether a service is handed out, the cache
\* afterwards and whether the constructor was run.
_get_service(service_name, constructed) ==
    IF service_name \in services_cache
    THEN [service |-> TRUE, cache |-> services_cache, loaded |-> FALSE]
    ELSE IF ~rag_services_available
    THEN [service |-> FALSE, cache |-> services_cache, loaded |-> FALSE]
    ELSE IF service_name \notin {"conversion_service", "user_preferences_service"}
    THEN [service |-> FALSE, cache |-> services_cache, loaded |-> FALSE]
    ELSE IF constructed
    THEN [service |-> TRUE, cache |-> services_cache \cup {service_name},
          loaded |-> TRUE]
    ELSE [service |-> FALSE, cache |-> services_cache, loaded |-> TRUE]

\* RAGChain._load_vectorstore: the three fields afterwards, given the fields
\* before and what the load does.
_load_vectorstore(old, outcome) ==
    IF outcome = "load_raised" THEN old
    ELSE IF outcome = "missing"
    THEN [old EXCEPT !.vectorstore = FALSE]
    ELSE IF outcome = "retriever_raised"
    THEN [old EXCEPT !.vectorstore = TRUE]
    ELSE [vectorstore |-> TRUE, retriever |-> TRUE, is_initialized |-> TRUE]

\* A preview that keeps the whole passage.
PreviewWhole(content) == content

\* content[:100] + "..." if len(content) > 100 else content
Preview(content) ==
    IF Len(content) > 100 THEN SubSeq(content, 1, 100) \o "..." ELSE content

\* retrieved_docs[:300] + "..." if len(retrieved_docs) > 300 else retrieved_docs
ContextPreview(retrieved_docs) ==
    IF Len(retrieved_docs) > 300
    THEN SubSeq(retrieved_docs, 1, 300) \o "..."
    ELSE retrieved_docs

\* doc.metadata.get("source", f"Document_{i}")
SourceOf(docs, i) ==
    Get(docs[i].metadata, "source", "Document_" \o ToString(i))

\* f"[Reference Document {i}] ({source}):\n{content}"
ContextPart(docs, i) ==
    "[Reference Document " \o ToString(i) \o "] (" \o SourceOf(docs, i)
        \o "):\n" \o docs[i].content

\* "\n\n".join(context_parts)
RECURSIVE JoinParts(_, _)
JoinParts(docs, n) ==
    IF n = 0 THEN ""
    ELSE IF n = 1 THEN ContextPart(docs, 1)
    ELSE JoinParts(docs, n - 1) \o "\n\n" \o ContextPart(docs, n)

RetrievedDocs(docs) == JoinParts(docs, Len(docs))

\* The sources list of ask_with_styles.
Sources(docs) ==
    [i \in 1..Len(docs) |->
        [content |-> Preview(docs[i].content),
         source |-> SourceOf(docs, i),
         rank |-> i]]

\* f"Question: {query}\n\nReference Documents:\n{retrieved_docs}"
EnhancedInput(query, docs) ==
    "Question: " \o query \o "\n\nReference Documents:\n" \o RetrievedDocs(docs)

\* The chunks list of ask: "..." is appended whatever the length.
Chunks(docs) ==
    [i \in 1..Len(docs) |->
        [content |-> SubSeq(docs[i].content, 1,
                            IF Len(docs[i].content) > 100 THEN 100
                            ELSE Len(docs[i].content)) \o "...",
         source |-> Get(docs[i].metadata, "source", "Unknown")]]

\* The characters str.strip() removes, as far as a string of this module can
\* hold them: space, U+0009-U+000D, U+001C-U+001F, U+0085, U+00A0 and U+1680
\* (those without an escape are written as the character itself).  It also
\* removes U+2000-U+200A, U+2028, U+2029, U+202F, U+205F and U+3000, which no
\* string literal of the language can contain, so no context here has them.
Whitespace ==
    {" ", "\t", "\n", "\r", "\f", "", "", "", "", "",
     "", " ", " "}

RECURSIVE LStrip(_)
LStrip(s) ==
    IF s = "" THEN ""
    ELSE IF SubSeq(s, 1, 1) \in Whitespace THEN LStrip(SubSeq(s, 2, Len(s)))
    ELSE s

RECURSIVE RStrip(_)
RStrip(s) ==
    IF s = "" THEN ""
    ELSE IF SubSeq(s, Len(s), Len(s)) \in Whitespace
    THEN RStrip(SubSeq(s, 1, Len(s) - 1))
    ELSE s

\* str.strip()
Strip(s) == RStrip(LStrip(s))

\* The query ask hands to the QA chain: "if context and context.strip()" puts
\* the stripped context in front of the question.
EnhancedQuery(query, ctx) ==
    IF ctx # NoText /\ ctx # "" /\ Strip(ctx) # ""
    THEN "Context: " \o Strip(ctx) \o "\n\nQuestion: " \o query
    ELSE query

\* error_response of ask_with_styles with its "error" key set.
StyleErrorResponseWithVariant(message) ==
    [success |-> FALSE,
     converted_texts |-> [EmptyVariants EXCEPT !.neutral = message],
     sources |-> <<>>,
     metadata |-> [model_used |-> "none"],
     error |-> message]

StyleErrorResponse(message) ==
    [success |-> FALSE,
     converted_texts |-> EmptyVariants,
     sources |-> <<>>,
     metadata |-> [model_used |-> "none"],
     error |-> message]

\* Mutant: retrieval information is added to every result that has a
\* "metadata" dictionary, whether or not the engine succeeded.
StyledResultAlways(engine_result, docs) ==
    IF "metadata" \notin DOMAIN engine_result THEN Returned(engine_result)
    ELSE Returned(
        [sources |-> Sources(docs),
         rag_context |-> ContextPreview(RetrievedDocs(docs)),
         metadata |-> [documents_retrieved |-> Len(docs),
                       model_used |-> "gpt-4o + faiss"]
                      @@ engine_result.metadata]
        @@ engine_result)

\* The engine's result as ask_with_styles returns it: retrieval information is
\* added to a successful result only.  Raised when the successful result has
\* no "metadata" dictionary (KeyError).
StyledResult(engine_result, docs) ==
    IF ~Get(engine_result, "success", FALSE) THEN Returned(engine_result)
    ELSE IF "metadata" \notin DOMAIN engine_result THEN Raised("'metadata'")
    ELSE Returned(
        [sources |-> Sources(docs),
         rag_context |-> ContextPreview(RetrievedDocs(docs)),
         metadata |-> [documents_retrieved |-> Len(docs),
                       model_used |-> "gpt-4o + faiss"]
                      @@ engine_result.metadata]
        @@ engine_result)

\* The three results of ask.
AskNotIndexedAsAnswer ==
    [success |-> TRUE, answer |-> "Documents are not indexed."]

AskNotIndexed == [success |-> FALSE, answer |-> "Documents are not indexed."]

AskSuccess(qa) ==
    [success |-> TRUE, answer |-> qa.answer, sources |-> Chunks(qa.source_documents)]

AskError(message) ==
    [success |-> FALSE, answer |-> "Error occurred: " \o message, sources |-> <<>>]

\* The results process_user_feedback builds itself.
AdvancedResult(feedback_text, profile) ==
    [success |-> TRUE,
     updated_profile |-> profile,
     style_adjustments |-> [advanced_learning |-> TRUE],
     feedback_processed |-> feedback_text,
     processing_method |-> "user_preferences_service"]

NoServiceResultBlankProfile(profile) ==
    [success |-> FALSE,
     error |-> "Feedback processing service is not initialized.",
     updated_profile |-> <<>>,
     processing_method |-> "none"]

NoServiceResult(profile) ==
    [success |-> FALSE,
     error |-> "Feedback processing service is not initialized.",
     updated_profile |-> profile,
     processing_method |-> "none"]

FeedbackErrorResult(message, profile) ==
    [success |-> FALSE,
     error |-> message,
     updated_profile |-> profile,
     processing_method |-> "error"]

\* result["processing_method"] = "conversion_service"
BasicResult(engine_result) ==
    [processing_method |-> "conversion_service"] @@ engine_result

Call(name, arg) == [call |-> name, arg |-> arg]

\* The constructor call _get_service made, if it made one.
Construction(g, service_name) ==
    IF g.loaded THEN <<Call("construct", service_name)>> ELSE <<>>

-----------------------------------------------------------------------------
(* RAGChain actions *)

\* No FinetuneChain request is running (used while the RAGChain runs).
FinetuneQuiet ==
    /\ is_inference_server_available = FALSE
    /\ services_available = FALSE
    /\ endpoint_up = FALSE
    /\ pc = "absent"
    /\ entry = "none"
    /\ input_text = NoText
    /\ user_profile = <<>>
    /\ context = NoText
    /\ force_convert = FALSE
    /\ should_convert = FALSE
    /\ conversion_reason = NoText
    /\ lora_output = NoText
    /\ method = NoText
    /\ lora_response = NoResponse
    /\ refinement_prompt = NoPrompt
    /\ trace = <<>>
    /\ result = NoResult
    /\ exception = NoException
    /\ refine_status = "not_run"

\* State after RAGChain.__init__: the availability check has run, the service
\* cache is empty and _load_vectorstore has been tried once.
InitRag ==
    /\ FinetuneQuiet
    /\ rag_services_available \in BOOLEAN
    /\ services_cache = {}
    /\ \E outcome \in LoadOutcomes :
           LET loaded == _load_vectorstore(
                   [vectorstore |-> FALSE, retriever |-> FALSE,
                    is_initialized |-> FALSE], outcome)
           IN  /\ vectorstore = loaded.vectorstore
               /\ retriever = loaded.retriever
               /\ is_initialized = loaded.is_initialized
    /\ rag_pc = "idle"
    /\ rag_op = "none"
    /\ rag_args = <<>>
    /\ rag_docs = <<>>
    /\ retrieval_status = "not_called"
    /\ adapt_status = "not_called"
    /\ feedback_status = "not_called"
    /\ rag_trace = <<>>
    /\ rag_result = NoResult
    /\ rag_exception = NoException
    /\ convert_response = NoResult
    /\ OthersQuiet

ChainFrame ==
    UNCHANGED <<finetune_vars, other_vars, rag_services_available, vectorstore,
                retriever, is_initialized>>

RagFrame ==
    UNCHANGED <<finetune_vars, other_vars, rag_services_available, vectorstore,
                retriever, is_initialized, rag_exception>>

\* RAGChain.ingest_documents (synchronous): build the index from a folder and,
\* when that produced a store, load it again.
ingest_documents(folder_path, ingest, load) ==
    /\ rag_pc = "idle"
    /\ rag_op' = "ingest_documents"
    /\ rag_args' = [folder_path |-> folder_path]
    /\ IF ingest.raised
       THEN /\ rag_result' = [success |-> FALSE, error |-> ingest.message]
            /\ rag_trace' = <<Call("ingest_documents_from_folder", folder_path)>>
            /\ UNCHANGED <<vectorstore, retriever, is_initialized>>
       ELSE IF ingest.store
       THEN LET loaded == _load_vectorstore(
                    [vectorstore |-> vectorstore, retriever |-> retriever,
                     is_initialized |-> is_initialized], load)
            IN  /\ vectorstore' = loaded.vectorstore
                /\ retriever' = loaded.retriever
                /\ is_initialized' = loaded.is_initialized
                /\ rag_result' = [success |-> TRUE,
                                  documents_processed |-> ingest.count]
                /\ rag_trace' = <<Call("ingest_documents_from_folder", folder_path),
                                  Call("load_vector_store", "faiss_index")>>
       ELSE /\ rag_result' = [success |-> FALSE,
                              error |-> "Document processing failed"]
            /\ rag_trace' = <<Call("ingest_documents_from_folder", folder_path)>>
            /\ UNCHANGED <<vectorstore, retriever, is_initialized>>
    /\ rag_docs' = <<>>
    /\ retrieval_status' = "not_called"
    /\ convert_response' = NoResult
    /\ rag_pc' = "done"
    /\ UNCHANGED <<finetune_vars, other_vars, rag_services_available,
                   services_cache, adapt_status, feedback_status, rag_exception>>

\* RAGChain.get_status (synchronous).  ntotal is what vectorstore.index.ntotal
\* holds; reading it from a vector store that is None raises AttributeError,
\* which nothing catches.
rag_get_status(ntotal) ==
    /\ rag_pc = "idle"
    /\ rag_op' = "get_status"
    /\ rag_args' = <<>>
    /\ IF is_initialized /\ ~vectorstore
       THEN /\ rag_exception' = "AttributeError"
            /\ rag_result' = NoResult
       ELSE /\ rag_exception' = NoException
            /\ rag_result' =
                   [rag_status |-> IF is_initialized THEN "ready" ELSE "not_ready",
                    doc_count |-> IF is_initialized THEN ntotal ELSE 0,
                    services_available |-> rag_services_available]
    /\ rag_trace' = <<>>
    /\ rag_docs' = <<>>
    /\ retrieval_status' = "not_called"
    /\ convert_response' = NoResult
    /\ rag_pc' = "done"
    /\ UNCHANGED <<services_cache, adapt_status, feedback_status>>
    /\ ChainFrame

\* RAGChain.ask (synchronous).
ask(query, ctx, qa) ==
    /\ rag_pc = "idle"
    /\ rag_op' = "ask"
    /\ rag_args' = [query |-> query, context |-> ctx]
    /\ IF ~is_initialized
       THEN /\ rag_result' = AskNotIndexed
            /\ rag_trace' = <<>>
            /\ rag_docs' = <<>>
       ELSE /\ rag_trace' = <<Call("qa_invoke", EnhancedQuery(query, ctx))>>
            /\ IF qa.raised
               THEN rag_result' = AskError(qa.message) /\ rag_docs' = <<>>
               ELSE /\ rag_result' = AskSuccess(qa)
                    /\ rag_docs' = qa.source_documents
    /\ rag_pc' = "done"
    /\ retrieval_status' = "not_called"
    /\ convert_response' = NoResult
    /\ UNCHANGED <<services_cache, adapt_status, feedback_status>>
    /\ RagFrame

\* RAGChain.ask_with_styles up to its await of convert_text, or to its return
\* when it does not get that far.
ask_with_styles(query, profile, ctx, constructed, retrieval) ==
    /\ rag_pc = "idle"
    /\ rag_op' = "ask_with_styles"
    /\ rag_args' = [query |-> query, user_profile |-> profile, context |-> ctx]
    /\ LET g == _get_service("conversion_service", constructed)
           built == Construction(g, "conversion_service")
       IN  /\ services_cache' = g.cache
           /\ IF ~g.service
              THEN /\ rag_result' =
                          StyleErrorResponse("Cannot load ConversionService.")
                   /\ rag_trace' = built
                   /\ rag_docs' = <<>>
                   /\ retrieval_status' = "not_called"
                   /\ convert_response' = NoResult
                   /\ rag_pc' = "done"
              ELSE IF ~is_initialized
              THEN /\ rag_result' =
                          StyleErrorResponse("RAG system is not initialized.")
                   /\ rag_trace' = built
                   /\ rag_docs' = <<>>
                   /\ retrieval_status' = "not_called"
                   /\ convert_response' = NoResult
                   /\ rag_pc' = "done"
              ELSE IF ~retriever
              THEN \* self.retriever is None: AttributeError inside the try
                   /\ rag_result' = StyleErrorResponse(
                          "Error occurred during style conversion: "
                          \o "'NoneType' object has no attribute 'get_relevant_documents'")
                   /\ rag_trace' = built
                   /\ rag_docs' = <<>>
                   /\ retrieval_status' = "not_called"
                   /\ convert_response' = NoResult
                   /\ rag_pc' = "done"
              ELSE IF retrieval.raised
              THEN /\ rag_result' = StyleErrorResponse(
                          "Error occurred during style conversion: "
                          \o retrieval.message)
                   /\ rag_trace' = built \o <<Call("retrieve", query)>>
                   /\ rag_docs' = <<>>
                   /\ retrieval_status' = "raised"
                   /\ convert_response' = NoResult
                   /\ rag_pc' = "done"
              ELSE IF retrieval.docs = <<>>
              THEN /\ rag_result' =
                          StyleErrorResponse("No related documents found.")
                   /\ rag_trace' = built \o <<Call("retrieve", query)>>
                   /\ rag_docs' = <<>>
                   /\ retrieval_status' = "empty"
                   /\ convert_response' = NoResult
                   /\ rag_pc' = "done"
              ELSE /\ rag_result' = NoResult
                   /\ rag_trace' = built \o
                          <<Call("retrieve", query),
                            Call("convert_text",
                                 EnhancedInput(query, retrieval.docs))>>
                   /\ rag_docs' = retrieval.docs
                   /\ retrieval_status' = "found"
                   /\ convert_response' = NoResult
                   /\ rag_pc' = "awaiting_convert"
    /\ UNCHANGED <<adapt_status, feedback_status>>
    /\ RagFrame

\* ask_with_styles from the answer of convert_text to its return.
ConvertTextRespond(outcome) ==
    /\ rag_pc = "awaiting_convert"
    /\ IF outcome.raised
       THEN rag_result' = StyleErrorResponse(
                "Error occurred during style conversion: " \o outcome.message)
       ELSE LET r == StyledResult(outcome.result, rag_docs)
            IN  IF r.raised
                THEN rag_result' = StyleErrorResponse(
                         "Error occurred during style conversion: " \o r.value)
                ELSE rag_result' = r.value
    /\ rag_pc' = "done"
    /\ convert_response' = outcome
    /\ UNCHANGED <<services_cache, rag_op, rag_args, rag_docs,
                   retrieval_status, adapt_status, feedback_status, rag_trace>>
    /\ RagFrame

\* The basic path of process_user_feedback up to its await: look the
\* conversion service up and call its feedback mapping, or return "none".
BasicPath(feedback_text, profile, cache, made, constructed) ==
    LET g == _get_service("conversion_service", constructed)
    IN  /\ services_cache' = cache \cup g.cache
        /\ IF ~g.service
           THEN /\ rag_result' = NoServiceResult(profile)
                /\ rag_trace' = made \o Construction(g, "conversion_service")
                /\ feedback_status' = "not_called"
                /\ rag_pc' = "done"
           ELSE /\ rag_result' = NoResult
                /\ rag_trace' = made \o Construction(g, "conversion_service")
                       \o <<Call("process_user_feedback", feedback_text)>>
                /\ feedback_status' = "awaiting"
                /\ rag_pc' = "awaiting_feedback"

\* if rating is not None
TriesAdvancedNoRating(rating) == TRUE

TriesAdvanced(rating) == rating # None

\* if success: on the answer of adapt_user_style
AdaptSucceededNever(outcome) == FALSE

AdaptSucceeded(outcome) == outcome.success

\* RAGChain.process_user_feedback up to its first await, or to its return.
process_user_feedback(feedback_text, profile, rating, selected_version, pref_constructed, conv_constructed) ==
    /\ rag_pc = "idle"
    /\ rag_op' = "process_user_feedback"
    /\ rag_args' = [feedback_text |-> feedback_text, user_profile |-> profile,
                    rating |-> rating, selected_version |-> selected_version]
    /\ rag_docs' = <<>>
    /\ retrieval_status' = "not_called"
    /\ convert_response' = NoResult
    /\ IF TriesAdvanced(rating)
       THEN LET g == _get_service("user_preferences_service", pref_constructed)
                built == Construction(g, "user_preferences_service")
            IN  IF g.service
                THEN /\ services_cache' = g.cache
                     /\ rag_result' = NoResult
                     /\ rag_trace' = built \o
                            <<Call("adapt_user_style",
                                   Get(profile, "userId", "unknown"))>>
                     /\ adapt_status' = "awaiting"
                     /\ feedback_status' = "not_called"
                     /\ rag_pc' = "awaiting_adapt"
                ELSE /\ adapt_status' = "not_called"
                     /\ BasicPath(feedback_text, profile, g.cache, built,
                                  conv_constructed)
       ELSE /\ adapt_status' = "not_called"
            /\ BasicPath(feedback_text, profile, services_cache, <<>>,
                         conv_constructed)
    /\ RagFrame

\* Mutant: an exception of adapt_user_style is treated like a reported
\* failure and the basic path is tried.
AdaptRespondFallingThrough(outcome, conv_constructed) ==
    /\ rag_pc = "awaiting_adapt"
    /\ adapt_status' = IF outcome.raised THEN "raised"
                       ELSE IF outcome.success THEN "succeeded" ELSE "failed"
    /\ IF ~outcome.raised /\ AdaptSucceeded(outcome)
       THEN /\ rag_result' = AdvancedResult(rag_args.feedback_text,
                                            rag_args.user_profile)
            /\ rag_pc' = "done"
            /\ UNCHANGED <<services_cache, rag_trace, feedback_status>>
       ELSE BasicPath(rag_args.feedback_text, rag_args.user_profile,
                      services_cache, rag_trace, conv_constructed)
    /\ UNCHANGED <<rag_op, rag_args, rag_docs, retrieval_status,
                   convert_response>>
    /\ RagFrame

\* process_user_feedback from the answer of adapt_user_style on.
AdaptRespond(outcome, conv_constructed) ==
    /\ rag_pc = "awaiting_adapt"
    /\ IF outcome.raised
       THEN /\ adapt_status' = "raised"
            /\ rag_result' = FeedbackErrorResult(outcome.message,
                                                 rag_args.user_profile)
            /\ rag_pc' = "done"
            /\ UNCHANGED <<services_cache, rag_trace, feedback_status>>
       ELSE /\ adapt_status' = IF outcome.success THEN "succeeded" ELSE "failed"
            /\ IF AdaptSucceeded(outcome)
               THEN /\ rag_result' = AdvancedResult(rag_args.feedback_text,
                                                    rag_args.user_profile)
                    /\ rag_pc' = "done"
                    /\ UNCHANGED <<services_cache, rag_trace, feedback_status>>
               ELSE BasicPath(rag_args.feedback_text, rag_args.user_profile,
                              services_cache, rag_trace, conv_constructed)
    /\ UNCHANGED <<rag_op, rag_args, rag_docs, retrieval_status,
                   convert_response>>
    /\ RagFrame

\* process_user_feedback from the answer of the feedback mapping to its return.
FeedbackRespond(outcome) ==
    /\ rag_pc = "awaiting_feedback"
    /\ IF outcome.raised
       THEN /\ feedback_status' = "raised"
            /\ rag_result' = FeedbackErrorResult(outcome.message,
                                                 rag_args.user_profile)
       ELSE /\ feedback_status' = "returned"
            /\ rag_result' = BasicResult(outcome.result)
    /\ rag_pc' = "done"
    /\ UNCHANGED <<services_cache, rag_op, rag_args, rag_docs,
                   retrieval_status, adapt_status, rag_trace, convert_response>>
    /\ RagFrame

\* The caller takes the result; the chain, with its service cache, is ready
\* for the next call.
RagReturn ==
    /\ rag_pc = "done"
    /\ rag_pc' = "idle"
    /\ rag_op' = "none"
    /\ rag_args' = <<>>
    /\ rag_docs' = <<>>
    /\ retrieval_status' = "not_called"
    /\ convert_response' = NoResult
    /\ adapt_status' = "not_called"
    /\ feedback_status' = "not_called"
    /\ rag_trace' = <<>>
    /\ rag_result' = NoResult
    /\ rag_exception' = NoException
    /\ UNCHANGED services_cache
    /\ ChainFrame

NextRag ==
    \/ /\ rag_pc = "idle"
       /\ \E q \in Queries, c \in AskContexts, qa \in QaOutcomes :
              ask(q, c, qa)
    \/ /\ rag_pc = "idle"
       /\ \E q \in Queries, p \in RagProfiles, c \in RagContexts,
             b \in BOOLEAN, r \in RetrievalOutcomes :
              ask_with_styles(q, p, c, b, r)
    \/ /\ rag_pc = "awaiting_convert"
       /\ \E o \in ConvertOutcomes : ConvertTextRespond(o)
    \/ /\ rag_pc = "idle"
       /\ \E t \in FeedbackTexts, p \in RagProfiles, r \in Ratings,
             v \in SelectedVersions, b1 \in BOOLEAN, b2 \in BOOLEAN :
              process_user_feedback(t, p, r, v, b1, b2)
    \/ /\ rag_pc = "awaiting_adapt"
       /\ \E o \in AdaptOutcomes, b \in BOOLEAN : AdaptRespond(o, b)
    \/ /\ rag_pc = "awaiting_feedback"
       /\ \E o \in FeedbackOutcomes : FeedbackRespond(o)
    \/ /\ rag_pc = "idle"
       /\ \E f \in Folders, i \in IngestOutcomes, l \in LoadOutcomes :
              ingest_documents(f, i, l)
    \/ /\ rag_pc = "idle"
       /\ \E n \in 0..MaxDocs : rag_get_status(n)
    \/ RagReturn

SpecRag == InitRag /\ [][NextRag]_vars

-----------------------------------------------------------------------------
(* get_rag_service: the module-level singleton of the RAG endpoints *)

\* get_rag_service is a plain function used as a FastAPI dependency, so each
\* request runs it on a thread of the server's pool.  A caller is such a
\* thread; its steps are the reads and writes of the global the function makes.
MaxCallers == 3

Callers == 1..MaxCallers

\* A caller that has not called yet.  made is the object it constructed and
\* got the object returned to it (0: none).
NotCalled == [pc |-> "idle", made |-> 0, got |-> 0]

InitService ==
    /\ FinetuneQuiet
    /\ rag_services_available = FALSE
    /\ services_cache = {}
    /\ vectorstore = FALSE
    /\ retriever = FALSE
    /\ is_initialized = FALSE
    /\ rag_pc = "absent"
    /\ rag_op = "none"
    /\ rag_args = <<>>
    /\ rag_docs = <<>>
    /\ retrieval_status = "not_called"
    /\ adapt_status = "not_called"
    /\ feedback_status = "not_called"
    /\ rag_trace = <<>>
    /\ rag_result = NoResult
    /\ rag_exception = NoException
    /\ convert_response = NoResult
    /\ calls = <<>>
    /\ instance = 0
    /\ constructions = 0
    /\ callers = [c \in Callers |-> NotCalled]

ServiceFrame ==
    UNCHANGED <<finetune_vars, rag_services_available, services_cache,
                vectorstore, retriever, is_initialized, rag_pc, rag_op,
                rag_args, rag_docs, retrieval_status, adapt_status,
                feedback_status, rag_trace, rag_result, rag_exception,
                convert_response, calls>>

\* if _rag_service_instance is None
CheckInstance(c) ==
    /\ callers[c].pc = "idle"
    /\ callers' = [callers EXCEPT ![c].pc = IF instance = 0 THEN "constructing"
                                            ELSE "returning"]
    /\ UNCHANGED <<instance, constructions>>
    /\ ServiceFrame

\* RAGService(): a new object, or an exception that becomes an HTTPException
\* (503 or 500) for this caller and leaves the global as it is.
ConstructService(c, ok) ==
    /\ callers[c].pc = "constructing"
    /\ IF ok
       THEN /\ constructions' = constructions + 1
            /\ callers' = [callers EXCEPT ![c].pc = "storing",
                                          ![c].made = constructions + 1]
       ELSE /\ callers' = [callers EXCEPT ![c].pc = "failed"]
            /\ UNCHANGED constructions
    /\ UNCHANGED instance
    /\ ServiceFrame

\* _rag_service_instance = <the new object>
StoreInstance(c) ==
    /\ callers[c].pc = "storing"
    /\ instance' = callers[c].made
    /\ callers' = [callers EXCEPT ![c].pc = "returning"]
    /\ UNCHANGED constructions
    /\ ServiceFrame

\* return _rag_service_instance
ReturnInstance(c) ==
    /\ callers[c].pc = "returning"
    /\ callers' = [callers EXCEPT ![c].pc = "returned", ![c].got = instance]
    /\ UNCHANGED <<instance, constructions>>
    /\ ServiceFrame

NextService ==
    \/ \E c \in Callers : CheckInstance(c)
    \/ \E c \in Callers, ok \in BOOLEAN : ConstructService(c, ok)
    \/ \E c \in Callers : StoreInstance(c)
    \/ \E c \in Callers : ReturnInstance(c)

SpecService == InitService /\ [][NextService]_vars

-----------------------------------------------------------------------------
(* Calls in flight at the same time *)

\* convert_to_formal and ask_with_styles are coroutines of one event loop: a
\* call runs without interruption from one await to the next, and while it is
\* suspended other calls on the same FinetuneChain and RAGChain objects start,
\* resume and return, and the index is reloaded.  Each call keeps its
\* arguments and locals in its own frame; the chains' attributes are shared.
MaxCalls == 2

Slots == 1..MaxCalls

\* The inputs and answers of the calls in flight: a few of each kind, so
\* that two calls differ in their arguments and in what they are answered.
ConcProfiles ==
    {[baseFormalityLevel |-> 2], [sessionFormalityLevel |-> None],
     [formal_document_mode |-> TRUE, baseDirectnessLevel |-> 1]}

ConcLoraResponses ==
    {[kind |-> "ok", text |-> "Greetings."],
     [kind |-> "timeout", text |-> NoText]}

ConcPromptOutcomes ==
    {[raised |-> TRUE, keys |-> {}], [raised |-> FALSE, keys |-> StyleKeys]}

ConcGptOutcomes == {g \in GptOutcomes : ~g.raised}

ConcRagProfiles == {[userId |-> "u1"]}

ConcQueries == {"What is FAISS?", "What is LoRA?"}

ConcRetrievals ==
    {[raised |-> TRUE, message |-> "index corrupted", docs |-> <<>>],
     [raised |-> FALSE, message |-> "", docs |-> <<>>],
     [raised |-> FALSE, message |-> "",
      docs |-> <<[content |-> LongContent,
                  metadata |-> [source |-> "guide.pdf"]]>>]}

ConcConvertOutcomes ==
    {[raised |-> TRUE, message |-> "boom", result |-> <<>>],
     [raised |-> FALSE, message |-> "",
      result |-> [success |-> TRUE, converted_texts |-> FullVariants,
                  metadata |-> [model_used |-> "gpt-4o"]]],
     [raised |-> FALSE, message |-> "",
      result |-> [success |-> FALSE, converted_texts |-> PartialVariants,
                  error |-> "conversion failed",
                  metadata |-> [model_used |-> "gpt-4o"]]]}

ConcQaOutcomes ==
    {[raised |-> TRUE, message |-> "boom", answer |-> "",
      source_documents |-> <<>>],
     [raised |-> FALSE, message |-> "", answer |-> "FAISS is a library.",
      source_documents |-> <<[content |-> ShortContent,
                              metadata |-> [source |-> "faiss.txt"]]>>]}

\* A slot without a call.  In a call's frame, seen holds what the call read of
\* the shared attributes when it started, answers what the collaborators
\* answer this call (for the service's constructor: what it does if this call
\* runs it), and filled whether the call put the conversion service into
\* _services_cache.
NoCall ==
    [op |-> "none", pc |-> "free", args |-> <<>>, seen |-> <<>>,
     answers |-> <<>>, locals |-> <<>>, filled |-> FALSE,
     result |-> NoResult, exception |-> NoException]

Suspended == {"awaiting_lora", "closing_client", "awaiting_convert"}

\* The locals a resuming coroutine reads: those of its own frame.
Frame(s) == calls[s]

\* _services_cache as it would be had the calls now suspended not run: the
\* services they constructed are missing from it.
CacheWithoutCallsInFlight ==
    IF \E t \in Slots : calls[t].pc \in Suspended /\ calls[t].filled
    THEN services_cache \ {"conversion_service"}
    ELSE services_cache

\* State after both chains were constructed, no call made yet.
InitConc ==
    /\ is_inference_server_available \in BOOLEAN
    /\ services_available \in BOOLEAN
    /\ endpoint_up = is_inference_server_available
    /\ pc = "absent"
    /\ entry = "none"
    /\ input_text = NoText
    /\ user_profile = <<>>
    /\ context = NoText
    /\ force_convert = FALSE
    /\ should_convert = FALSE
    /\ conversion_reason = NoText
    /\ lora_output = NoText
    /\ method = NoText
    /\ lora_response = NoResponse
    /\ refinement_prompt = NoPrompt
    /\ trace = <<>>
    /\ result = NoResult
    /\ exception = NoException
    /\ refine_status = "not_run"
    /\ rag_services_available \in BOOLEAN
    /\ services_cache = {}
    /\ \E outcome \in LoadOutcomes :
           LET loaded == _load_vectorstore(
                   [vectorstore |-> FALSE, retriever |-> FALSE,
                    is_initialized |-> FALSE], outcome)
           IN  /\ vectorstore = loaded.vectorstore
               /\ retriever = loaded.retriever
               /\ is_initialized = loaded.is_initialized
    /\ rag_pc = "absent"
    /\ rag_op = "none"
    /\ rag_args = <<>>
    /\ rag_docs = <<>>
    /\ retrieval_status = "not_called"
    /\ adapt_status = "not_called"
    /\ feedback_status = "not_called"
    /\ rag_trace = <<>>
    /\ rag_result = NoResult
    /\ rag_exception = NoException
    /\ convert_response = NoResult
    /\ instance = 0
    /\ constructions = 0
    /\ callers = <<>>
    /\ calls = [s \in Slots |-> NoCall]

\* What no call in flight writes: the single-request variables, the flags of
\* the FinetuneChain and the singleton of the endpoints.
ConcFrame ==
    UNCHANGED <<finetune_vars, rag_services_available, rag_pc, rag_op,
                rag_args, rag_docs, retrieval_status, adapt_status,
                feedback_status, rag_trace, rag_result, rag_exception,
                convert_response, instance, constructions, callers>>

\* convert_to_formal in slot s, from its first line to the await of the POST
\* or, when nothing is awaited, to its return.
StartConvert(s, text, profile, ctx, force, pe, gpt) ==
    /\ calls[s].pc = "free"
    /\ LET d == Decide(profile, ctx, force)
           begun == [NoCall EXCEPT
                        !.op = "convert_to_formal",
                        !.args = [input_text |-> text, user_profile |-> profile,
                                  context |-> ctx, force_convert |-> force]]
       IN  calls' = [calls EXCEPT ![s] =
               IF d.raised
               THEN [begun EXCEPT !.pc = "done",
                                  !.exception = d.conversion_reason]
               ELSE IF ~d.should_convert
               THEN [begun EXCEPT !.pc = "done",
                                  !.result = RejectedResult(d.conversion_reason)]
               ELSE IF is_inference_server_available
               THEN [begun EXCEPT
                        !.pc = "awaiting_lora",
                        !.locals = [conversion_reason |-> d.conversion_reason]]
               ELSE LET r == _refine_with_gpt(text, text, profile, ctx, pe, gpt)
                    IN  [begun EXCEPT
                            !.pc = "done",
                            !.answers = [pe |-> pe, gpt |-> gpt],
                            !.result = SuccessResult(r.value, text, "gpt_only",
                                           d.conversion_reason, force)]]
    /\ UNCHANGED <<services_cache, vectorstore, retriever, is_initialized>>
    /\ ConcFrame

\* The frame of slot s after convert_to_formal ran from the exit of the
\* "async with" block of _generate_with_lora to its return.
ConvertFinished(s, response, pe, gpt) ==
    LET f == Frame(s)
        g == _generate_with_lora(f.args.input_text, response)
        r == _refine_with_gpt(g.value, f.args.input_text,
                              f.args.user_profile, f.args.context, pe, gpt)
    IN  [calls[s] EXCEPT
            !.pc = "done",
            !.answers = [lora |-> response, pe |-> pe, gpt |-> gpt],
            !.result =
                IF g.raised
                THEN ErrorResult(g.value, f.locals.conversion_reason)
                ELSE SuccessResult(r.value, g.value, "lora_gpt",
                         f.locals.conversion_reason, f.args.force_convert)]

\* convert_to_formal in slot s, from the endpoint's answer to the await at the
\* exit of the "async with" block (connection still open) or, when the
\* connection was closed with the answer or the POST raised, to its return.
ResumeConvert(s, response, keep_alive, pe, gpt) ==
    /\ calls[s].pc = "awaiting_lora"
    /\ calls' = [calls EXCEPT ![s] =
           IF ClosesConnection(response, keep_alive)
           THEN [calls[s] EXCEPT !.pc = "closing_client",
                                 !.answers = [lora |-> response]]
           ELSE ConvertFinished(s, response, pe, gpt)]
    /\ UNCHANGED <<services_cache, vectorstore, retriever, is_initialized>>
    /\ ConcFrame

\* convert_to_formal in slot s resumed after the client was closed, to its
\* return.
CloseClient(s, pe, gpt) ==
    /\ calls[s].pc = "closing_client"
    /\ calls' = [calls EXCEPT ![s] =
           ConvertFinished(s, Frame(s).answers.lora, pe, gpt)]
    /\ UNCHANGED <<services_cache, vectorstore, retriever, is_initialized>>
    /\ ConcFrame

\* ask_with_styles in slot s, up to the await of convert_text or to its return.
StartAskWithStyles(s, query, profile, ctx, constructed, retrieval) ==
    /\ calls[s].pc = "free"
    /\ LET g == _get_service("conversion_service", constructed)
           begun == [NoCall EXCEPT
                        !.op = "ask_with_styles",
                        !.args = [query |-> query, user_profile |-> profile,
                                  context |-> ctx],
                        !.seen = [services_cache |-> CacheWithoutCallsInFlight,
                                  is_initialized |-> is_initialized,
                                  retriever |-> retriever],
                        !.filled = g.loaded /\ g.service,
                        !.answers = [constructed |-> constructed]]
           ended(message) ==
               [begun EXCEPT !.pc = "done",
                             !.result = StyleErrorResponse(message)]
           asked == [begun EXCEPT
                        !.answers = [retrieval |-> retrieval] @@ begun.answers]
       IN  /\ services_cache' = g.cache
           /\ calls' = [calls EXCEPT ![s] =
                  IF ~g.service THEN ended("Cannot load ConversionService.")
                  ELSE IF ~is_initialized
                  THEN ended("RAG system is not initialized.")
                  ELSE IF ~retriever
                  THEN ended("Error occurred during style conversion: "
                             \o "'NoneType' object has no attribute 'get_relevant_documents'")
                  ELSE IF retrieval.raised
                  THEN [asked EXCEPT
                           !.pc = "done",
                           !.result = StyleErrorResponse(
                               "Error occurred during style conversion: "
                               \o retrieval.message)]
                  ELSE IF retrieval.docs = <<>>
                  THEN [asked EXCEPT
                           !.pc = "done",
                           !.result = StyleErrorResponse(
                               "No related documents found.")]
                  ELSE [asked EXCEPT
                           !.pc = "awaiting_convert",
                           !.locals = [docs |-> retrieval.docs]]]
    /\ UNCHANGED <<vectorstore, retriever, is_initialized>>
    /\ ConcFrame

\* ask_with_styles in slot s, from the answer of convert_text to its return.
ResumeAskWithStyles(s, outcome) ==
    /\ calls[s].pc = "awaiting_convert"
    /\ LET f == Frame(s)
           r == StyledResult(outcome.result, f.locals.docs)
       IN  calls' = [calls EXCEPT ![s] =
               [calls[s] EXCEPT
                   !.pc = "done",
                   !.answers = [convert |-> outcome] @@ calls[s].answers,
                   !.result =
                       IF outcome.raised
                       THEN StyleErrorResponse(
                                "Error occurred during style conversion: "
                                \o outcome.message)
                       ELSE IF r.raised
                       THEN StyleErrorResponse(
                                "Error occurred during style conversion: "
                                \o r.value)
                       ELSE r.value]]
    /\ UNCHANGED <<services_cache, vectorstore, retriever, is_initialized>>
    /\ ConcFrame

\* ask in slot s: it awaits nothing and runs from its first line to its return.
AskAtOnce(s, query, ctx, qa) ==
    /\ calls[s].pc = "free"
    /\ LET begun == [NoCall EXCEPT
                        !.op = "ask",
                        !.pc = "done",
                        !.args = [query |-> query, context |-> ctx],
                        !.seen = [is_initialized |-> is_initialized]]
       IN  calls' = [calls EXCEPT ![s] =
               IF ~is_initialized
               THEN [begun EXCEPT !.result = AskNotIndexed]
               ELSE [begun EXCEPT
                        !.answers = [qa |-> qa],
                        !.result = IF qa.raised THEN AskError(qa.message)
                                   ELSE AskSuccess(qa)]]
    /\ UNCHANGED <<services_cache, vectorstore, retriever, is_initialized>>
    /\ ConcFrame

\* ingest_documents runs between the steps of the calls in flight, its
\* ingestion produces a store and the index is loaded again.
ReloadBetween(load) ==
    /\ LET loaded == _load_vectorstore(
               [vectorstore |-> vectorstore, retriever |-> retriever,
                is_initialized |-> is_initialized], load)
       IN  /\ vectorstore' = loaded.vectorstore
           /\ retriever' = loaded.retriever
           /\ is_initialized' = loaded.is_initialized
    /\ UNCHANGED <<calls, services_cache>>
    /\ ConcFrame

\* The caller of slot s takes the result and the frame is dropped.
FinishCall(s) ==
    /\ calls[s].pc = "done"
    /\ calls' = [calls EXCEPT ![s] = NoCall]
    /\ UNCHANGED <<services_cache, vectorstore, retriever, is_initialized>>
    /\ ConcFrame

NextConc ==
    \/ \E s \in Slots :
           /\ calls[s].pc = "free"
           /\ \E t \in Texts, p \in ConcProfiles, f \in BOOLEAN,
                 pe \in ConcPromptOutcomes, gpt \in ConcGptOutcomes :
                  StartConvert(s, t, p, "business", f, pe, gpt)
    \/ \E s \in Slots :
           /\ calls[s].pc = "awaiting_lora"
           /\ \E r \in ConcLoraResponses, keep_alive \in BOOLEAN,
                 pe \in ConcPromptOutcomes, gpt \in ConcGptOutcomes :
                  ResumeConvert(s, r, keep_alive, pe, gpt)
    \/ \E s \in Slots :
           /\ calls[s].pc = "closing_client"
           /\ \E pe \in ConcPromptOutcomes, gpt \in ConcGptOutcomes :
                  CloseClient(s, pe, gpt)
    \/ \E s \in Slots :
           /\ calls[s].pc = "free"
           /\ \E q \in ConcQueries, p \in ConcRagProfiles, c \in BOOLEAN,
                 r \in ConcRetrievals :
                  StartAskWithStyles(s, q, p, "personal", c, r)
    \/ \E s \in Slots :
           /\ calls[s].pc = "awaiting_convert"
           /\ \E o \in ConcConvertOutcomes : ResumeAskWithStyles(s, o)
    \/ \E s \in Slots :
           /\ calls[s].pc = "free"
           /\ \E q \in ConcQueries, qa \in ConcQaOutcomes :
                  AskAtOnce(s, q, "", qa)
    \/ \E l \in LoadOutcomes : ReloadBetween(l)
    \/ \E s \in Slots : FinishCall(s)

SpecConc == InitConc /\ [][NextConc]_vars

-----------------------------------------------------------------------------
(* Properties of the routing decision and of convert *)

\* The formality of section 4.1 of the specification: the session value when
\* the profile has the key, else the base value when it has that key, else 3.
EffectiveFormality(profile) ==
    IF "sessionFormalityLevel" \in DOMAIN profile
    THEN profile["sessionFormalityLevel"]
    ELSE IF "baseFormalityLevel" \in DOMAIN profile
    THEN profile["baseFormalityLevel"]
    ELSE 3

FormalDocumentMode(profile) ==
    "formal_document_mode" \in DOMAIN profile /\ profile["formal_document_mode"]

HasBaseFormality(profile) ==
    "baseFormalityLevel" \in DOMAIN profile /\ profile["baseFormalityLevel"] # None

FormalContext == context \in {"business", "report"}

Wrappers == {"convert_by_user_request", "convert_to_business", "convert_to_report"}

\* A request has been decided: the coroutine is suspended or has finished.
Decided == pc \in {"awaiting_lora", "closing_client", "done"}

Returned_ == pc = "done" /\ exception = NoException

\* C1: a request made with forceConvert = true, through convert_to_formal or
\* through one of the three wrappers, is escalated with reason
\* user_explicit_request whatever the profile and the context; it is never
\* rejected and the decision never raises.
C1_ForceAlwaysEscalates ==
    (Decided /\ (force_convert \/ entry \in Wrappers)) =>
        /\ force_convert
        /\ exception = NoException
        /\ should_convert
        /\ conversion_reason = "user_explicit_request"
        /\ pc = "done" => /\ result.reason = "user_explicit_request"
                          /\ result.method # "none"

\* convert_to_business has returned a forced conversion for a profile whose
\* session formality is None, a profile the automatic rule cannot even evaluate.
C1_Witness ==
    /\ pc = "done"
    /\ entry = "convert_to_business"
    /\ Get(user_profile, "sessionFormalityLevel", 0) = None
    /\ result.success
    /\ result.reason = "user_explicit_request"

\* C2 as stated: every profile with baseFormality >= 5 is escalated with
\* reason auto_condition in any context when forceConvert is false (looked at
\* on the requests whose decision returned).
C2_Original ==
    (Decided /\ exception = NoException /\ ~force_convert
             /\ HasBaseFormality(user_profile)
             /\ user_profile["baseFormalityLevel"] >= 5) =>
        /\ should_convert
        /\ conversion_reason = "auto_condition"

\* C2 amended: every profile whose effective formality (the session value when
\* present, otherwise the base value) is a number >= 5 is escalated with reason
\* auto_condition in any context when forceConvert is false.
C2_EffectiveFormalityAtLeast5 ==
    (Decided /\ ~force_convert /\ EffectiveFormality(user_profile) # None
             /\ EffectiveFormality(user_profile) >= 5) =>
        /\ exception = NoException
        /\ should_convert
        /\ conversion_reason = "auto_condition"
        /\ pc = "done" => result.success /\ result.reason = "auto_condition"

\* Base formality 5, no session value, personal context: escalated.
C2_Witness ==
    /\ pc = "done"
    /\ ~force_convert
    /\ user_profile = [baseFormalityLevel |-> 5]
    /\ context = "personal"
    /\ result.success
    /\ result.reason = "auto_condition"

\* C3 as stated: every profile with baseFormality = 4 is escalated if and only
\* if the context is business or report (looked at on the requests whose
\* decision returned).
C3_Original ==
    (Decided /\ exception = NoException /\ HasBaseFormality(user_profile)
             /\ user_profile["baseFormalityLevel"] = 4) =>
        (should_convert <=> FormalContext)

\* C3 amended: when forceConvert is false and formal-document mode is not set,
\* a profile whose effective formality is 4 is escalated if and only if the
\* context is business or report.
C3_EffectiveFormality4 ==
    (Decided /\ ~force_convert /\ ~FormalDocumentMode(user_profile)
             /\ EffectiveFormality(user_profile) = 4) =>
        /\ exception = NoException
        /\ should_convert <=> FormalContext
        /\ conversion_reason =
               IF FormalContext THEN "auto_condition" ELSE "condition_not_met"

\* Base formality 4 in the report context: escalated.
C3_Witness ==
    /\ pc = "done"
    /\ ~force_convert
    /\ user_profile = [baseFormalityLevel |-> 4]
    /\ context = "report"
    /\ should_convert
    /\ result.success

\* C4 as stated: a profile with baseFormality <= 3 and formal-document mode
\* unset is never escalated when forceConvert is false.
C4_Original ==
    (Decided /\ ~force_convert /\ ~FormalDocumentMode(user_profile)
             /\ HasBaseFormality(user_profile)
             /\ user_profile["baseFormalityLevel"] <= 3) =>
        ~should_convert

\* C4 amended: a profile whose effective formality is a number <= 3 and whose
\* formal-document mode is unset is never escalated when forceConvert is
\* false, whatever the context.
C4_EffectiveFormalityAtMost3 ==
    (Decided /\ ~force_convert /\ ~FormalDocumentMode(user_profile)
             /\ EffectiveFormality(user_profile) # None
             /\ EffectiveFormality(user_profile) <= 3) =>
        /\ ~should_convert
        /\ exception = NoException
        /\ result.method = "none"

\* Base formality 3 in the business context: rejected.
C4_Witness ==
    /\ pc = "done"
    /\ ~force_convert
    /\ user_profile = [baseFormalityLevel |-> 3]
    /\ context = "business"
    /\ ~result.success
    /\ result.reason = "condition_not_met"

\* C5: when forceConvert is false and the profile's formal-document mode is
\* true, the request is escalated with reason auto_condition at every
\* formality level and in every context.
C5_FormalDocumentModeEscalates ==
    (Decided /\ ~force_convert /\ FormalDocumentMode(user_profile)) =>
        /\ exception = NoException
        /\ should_convert
        /\ conversion_reason = "auto_condition"
        /\ pc = "done" => result.success /\ result.reason = "auto_condition"

\* Formal-document mode with base formality 1 in the personal context.
C5_Witness ==
    /\ pc = "done"
    /\ ~force_convert
    /\ user_profile = [formal_document_mode |-> TRUE, baseFormalityLevel |-> 1]
    /\ context = "personal"
    /\ result.success
    /\ result.reason = "auto_condition"

\* C6: the level compared with the thresholds is the session formality when
\* the profile has one, else the base formality when it has one, else 3: with
\* forceConvert false and formal-document mode unset, the request is escalated
\* exactly when that level is >= 5, or >= 4 in a business or report context.
\* So session 5 over base 2 escalates, session 3 over base 5 does not, and a
\* profile with neither value is not escalated in any context.
C6_SessionThenBaseThen3 ==
    (Decided /\ ~force_convert /\ ~FormalDocumentMode(user_profile)
             /\ EffectiveFormality(user_profile) # None) =>
        /\ exception = NoException
        /\ should_convert <=>
               \/ EffectiveFormality(user_profile) >= 5
               \/ EffectiveFormality(user_profile) >= 4 /\ FormalContext
        /\ ({"sessionFormalityLevel", "baseFormalityLevel"}
                \cap DOMAIN user_profile = {}) => ~should_convert

\* Session formality 3 over base formality 5, business context: rejected.
C6_Witness ==
    /\ pc = "done"
    /\ ~force_convert
    /\ user_profile = [sessionFormalityLevel |-> 3, baseFormalityLevel |-> 5]
    /\ context = "business"
    /\ ~should_convert
    /\ result.method = "none"

\* C7: the routing decision is total: for every profile, context and value of
\* forceConvert it yields a decision and never raises.  (That it is
\* deterministic and changes no state holds of Decide, which is a function of
\* its arguments.)
C7_DecideNeverRaises == exception = NoException

\* C8: when the decision is not to escalate, convert returns success=false,
\* method "none" and reason condition_not_met, and no call has been made to
\* the specialized endpoint, the Prompt Template Service or the Language
\* Generation Service.
C8_RejectedWithoutCalls ==
    (Returned_ /\ ~should_convert) =>
        /\ ~result.success
        /\ result.method = "none"
        /\ result.reason = "condition_not_met"
        /\ result.converted_text = ""
        /\ trace = <<>>
        /\ lora_response = NoResponse
        /\ refinement_prompt = NoPrompt

\* A request with base formality 4 in the personal context was rejected while
\* the endpoint is flagged reachable and the services are available.
C8_Witness ==
    /\ Returned_
    /\ is_inference_server_available
    /\ services_available
    /\ user_profile = [baseFormalityLevel |-> 4]
    /\ context = "personal"
    /\ result.method = "none"
    /\ trace = <<>>

\* C9: in a successful result the method tag is "lora_gpt" when the call to
\* the specialized endpoint made for the request succeeded, and "gpt_only"
\* otherwise (endpoint not called, or called and failed).
C9_MethodTagFollowsCallOutcome ==
    (Returned_ /\ should_convert /\ result.success) =>
        result.method =
            IF lora_response.kind = "ok" THEN "lora_gpt" ELSE "gpt_only"

\* The primary stage of the current request has not finished: the POST is
\* awaited, or its answer has come and the client is being closed.  Nothing
\* of the refinement has run and nothing has been returned.
PrimaryStagePending ==
    pc \in {"awaiting_lora", "closing_client"} =>
        /\ trace = <<"lora_post">>
        /\ lora_output = NoText
        /\ refinement_prompt = NoPrompt
        /\ refine_status = "not_run"
        /\ result = NoResult
        /\ exception = NoException
        /\ pc = "closing_client" <=> lora_response # NoResponse

\* C10: when the endpoint is flagged reachable and the generate call fails
\* (transport error, timeout, non-2xx status, malformed body, body without a
\* result field), the primary output is exactly the original input text,
\* nothing is raised, the refinement stage runs after the call on that text,
\* and convert returns success=true.  While the client is being closed after
\* a failed answer nothing has been raised or returned yet.
C10_GenerateFailureSubstitutesInput ==
    /\ PrimaryStagePending
    /\ (pc = "done" /\ lora_response.kind \notin {"none", "ok"}) =>
            /\ is_inference_server_available
            /\ exception = NoException
            /\ lora_output = input_text
            /\ result.success
            /\ result.lora_output = input_text
            /\ Len(trace) >= 2 /\ trace[1] = "lora_post" /\ trace[2] = "refine"
            /\ refinement_prompt # NoPrompt =>
                   /\ refinement_prompt.lora_output = input_text
                   /\ refinement_prompt.original_text = input_text
            /\ result.converted_text \in GptTexts \cup {input_text}

\* The generate call answered without a result field and the request still
\* came back refined by the Language Generation Service.
C10_Witness ==
    /\ pc = "done"
    /\ lora_response.kind = "no_result_field"
    /\ lora_output = input_text
    /\ trace = <<"lora_post", "refine", "prompt_engineer", "gpt_call">>
    /\ result.success
    /\ result.converted_text \in GptTexts

\* The primary-stage output of the current request: the endpoint's text when
\* the generate call succeeded, the original input otherwise.
PrimaryOutput ==
    IF lora_response.kind = "ok" THEN lora_response.text ELSE input_text

\* C11: if the refinement fails (the Prompt Template Service raises, the style
\* selection raises or the Language Generation Service raises) or cannot run,
\* convert returns success=true with converted text equal to the primary-stage
\* output: the endpoint's text, or the original input when the primary stage
\* was skipped or failed.
C11_RefinementFailureReturnsPrimary ==
    /\ refine_status \in {"failed", "skipped"} => pc = "done"
    /\ (pc = "done" /\ refine_status \in {"failed", "skipped"}) =>
           /\ exception = NoException
           /\ result.success
           /\ result.converted_text = PrimaryOutput
           /\ lora_output = PrimaryOutput

\* The endpoint answered "Greetings.", the generation service raised, and the
\* caller received the endpoint's text.
C11_Witness ==
    /\ pc = "done"
    /\ refine_status = "failed"
    /\ trace = <<"lora_post", "refine", "prompt_engineer", "gpt_call">>
    /\ lora_response = [kind |-> "ok", text |-> "Greetings."]
    /\ input_text = "hi"
    /\ result.success
    /\ result.converted_text = "Greetings."

\* C12: no exception leaves convert: every finished call has handed the caller
\* a result dictionary, an unexpected failure being reported in it as
\* success=false with method "error".
C12_NoExceptionEscapesConvert ==
    pc = "done" =>
        /\ exception = NoException
        /\ "success" \in DOMAIN result
        /\ result.method = "error" => ~result.success /\ result.error # ""

\* C13: every result of convert is consistently populated.  success=true:
\* method is lora_gpt or gpt_only, reason is user_explicit_request or
\* auto_condition, forced is the forceConvert flag passed in, and reason is
\* user_explicit_request exactly when forced.  success=false: method is none or
\* error and the converted text is empty.
C13_ResultConsistent ==
    /\ pc \in {"awaiting_lora", "closing_client"} => result = NoResult
    /\ Returned_ =>
        IF result.success
        THEN /\ result.method \in {"lora_gpt", "gpt_only"}
             /\ result.reason \in {"user_explicit_request", "auto_condition"}
             /\ result.forced = force_convert
             /\ result.reason = "user_explicit_request" <=> result.forced
        ELSE /\ result.method \in {"none", "error"}
             /\ result.converted_text = ""

\* An automatic (not forced) conversion went through the endpoint, whose
\* answer lacked the result field, and came back as a lora_gpt success.
C13_Witness ==
    /\ Returned_
    /\ ~force_convert
    /\ is_inference_server_available
    /\ lora_response.kind = "no_result_field"
    /\ result.success
    /\ result.method = "lora_gpt"
    /\ result.reason = "auto_condition"
    /\ result.forced = FALSE

\* How many times the current request made the collaborator call ev.
Count(ev) == Cardinality({i \in DOMAIN trace : trace[i] = ev})

\* Every call of the second kind comes after every call of the first kind.
Precedes(first, second) ==
    \A i, j \in DOMAIN trace :
        (trace[i] = first /\ trace[j] = second) => i < j

\* C22 as stated: every escalated convert calls the generation service for
\* refinement exactly once, after the primary stage.
C22_Original ==
    (Returned_ /\ should_convert) =>
        /\ Count("gpt_call") = 1
        /\ Precedes("lora_post", "gpt_call")

\* C22: every escalated convert runs _refine_with_gpt exactly once, after the
\* primary stage has finished, whatever that stage did.  The generation
\* service is called at most once: exactly once when the refinement prompt
\* was built, not at all when the services are unavailable or building the
\* prompt raised.  As long as the primary stage is pending (POST awaited, or
\* client being closed after the answer) the refinement has not started.
C22_RefinementOnceAfterPrimary ==
    /\ pc \in {"awaiting_lora", "closing_client"} =>
           Count("refine") = 0 /\ Count("gpt_call") = 0
    /\ (Returned_ /\ should_convert) =>
           /\ Count("refine") = 1
           /\ Precedes("lora_post", "refine")
           /\ Precedes("refine", "gpt_call")
           /\ is_inference_server_available =>
                  Count("lora_post") = 1 /\ lora_response # NoResponse
           /\ ~is_inference_server_available => Count("lora_post") = 0
           /\ Count("gpt_call") <= 1
           /\ Count("gpt_call") = 1 <=> refinement_prompt # NoPrompt
           /\ ~services_available =>
                  Count("gpt_call") = 0 /\ refine_status = "skipped"
           /\ refine_status = "refined" => Count("gpt_call") = 1

\* The generate call failed, the input was substituted and the refinement
\* called the generation service once.
C22_Witness ==
    /\ Returned_
    /\ should_convert
    /\ is_inference_server_available
    /\ lora_response # NoResponse
    /\ lora_response.kind # "ok"
    /\ lora_output = input_text
    /\ Count("gpt_call") = 1
    /\ trace = <<"lora_post", "refine", "prompt_engineer", "gpt_call">>

\* C23: after construction no call writes is_inference_server_available and
\* none probes the endpoint's health again, whatever convert_to_formal, its
\* three wrappers and get_status do and however the generate call ends; a
\* chain whose flag is false answers gpt_only without calling the endpoint,
\* also while the endpoint is up again.
C23_FlagWrittenOnlyAtConstruction ==
    [][/\ is_inference_server_available' = is_inference_server_available
       /\ Count("health_probe")' = 0
       /\ (~is_inference_server_available /\ pc' = "done" /\ should_convert'
              /\ exception' = NoException) =>
              /\ result'.success
              /\ result'.method = "gpt_only"
              /\ Count("lora_post")' = 0
       /\ pc' = "status_done" =>
              result'.base_model_loaded = is_inference_server_available]_vars

\* The chain was built while the endpoint was down; the endpoint is up now and
\* a forced conversion has just been answered gpt_only.
C23_Witness ==
    /\ ~is_inference_server_available
    /\ endpoint_up
    /\ Returned_
    /\ should_convert
    /\ result.method = "gpt_only"
    /\ Count("lora_post") = 0

\* The profile carries a directness number under the key.
HasDirectness(profile, key) == key \in DOMAIN profile /\ profile[key] # None

\* Session directness if present, else base directness, else 3.
EffectiveDirectness(profile) ==
    IF HasDirectness(profile, "sessionDirectnessLevel")
    THEN profile["sessionDirectnessLevel"]
    ELSE IF HasDirectness(profile, "baseDirectnessLevel")
    THEN profile["baseDirectnessLevel"]
    ELSE 3

\* The style the directness selects.
StyleOfDirectness(d) ==
    IF d >= 4 THEN "direct" ELSE IF d <= 2 THEN "gentle" ELSE "neutral"

\* C24: in every escalated convert whose refinement services are available,
\* exactly one style is chosen for the profile's effective directness (direct
\* from 4, gentle up to 2, neutral otherwise), and a refinement prompt that was
\* built carries that style's instruction (or the fallback the prompt
\* dictionary gives when it lacks the style).  A profile whose directness key
\* holds None breaks it: no style is chosen and no prompt is built.
C24_InstructionByDirectness ==
    (Returned_ /\ should_convert /\ services_available) =>
        /\ ~StyleKey(user_profile).raised
        /\ StyleKey(user_profile).value =
               StyleOfDirectness(EffectiveDirectness(user_profile))
        /\ refinement_prompt # NoPrompt =>
               refinement_prompt.instruction \in
                   {StyleOfDirectness(EffectiveDirectness(user_profile)),
                    "neutral", ""}

-----------------------------------------------------------------------------
(* Properties of the RAGChain *)

RagReturned == rag_pc = "done" /\ rag_exception = NoException

\* The result says success=false.
Failed(r) == "success" \in DOMAIN r /\ ~r.success

\* The result has an "error" entry and it is not the empty string.
CarriesError(r) == "error" \in DOMAIN r /\ r.error # ""

\* The calls of the current request to the collaborator method `name`.
CallsTo(name) == {i \in DOMAIN rag_trace : rag_trace[i].call = name}

\* C14: every result with success=false that convert_to_formal, ask,
\* ask_with_styles or process_user_feedback returns has a non-empty error
\* string.  ask breaks it: its failure results carry their message under
\* "answer" and have no "error" entry.
C14_FailuresCarryError ==
    /\ (Returned_ /\ Failed(result)) => CarriesError(result)
    /\ (RagReturned
            /\ rag_op \in {"ask", "ask_with_styles", "process_user_feedback"}
            /\ Failed(rag_result))
        => CarriesError(rag_result)

VariantNames == {"direct", "gentle", "neutral"}

\* C15: when the retriever returns no passage, ask_with_styles returns
\* success=false with sources=[], an error message and the three variants
\* empty, and convert_text is not called for that request.
C15_NoPassagesNoGeneration ==
    (RagReturned /\ rag_op = "ask_with_styles" /\ retrieval_status = "empty") =>
        /\ Failed(rag_result)
        /\ rag_result.sources = <<>>
        /\ CarriesError(rag_result)
        /\ \A v \in VariantNames : rag_result.converted_texts[v] = ""
        /\ CallsTo("convert_text") = {}

\* The retriever was asked and answered with an empty list.
C15_Witness ==
    /\ RagReturned
    /\ rag_op = "ask_with_styles"
    /\ is_initialized
    /\ retrieval_status = "empty"
    /\ CallsTo("retrieve") # {}
    /\ rag_result.error = "No related documents found."

\* The message of a failed result: ask keeps it under "answer",
\* ask_with_styles under "error".
FailureMessage(r) == IF "error" \in DOMAIN r THEN r.error ELSE r.answer

\* C16: with is_initialized false, ask and ask_with_styles return
\* success=false with a message that says so, and they call neither the
\* retriever, nor the QA chain, nor convert_text, nor load_vector_store.
C16_NotInitializedIsTerminal ==
    (RagReturned /\ rag_op \in {"ask", "ask_with_styles"} /\ ~is_initialized) =>
        /\ Failed(rag_result)
        /\ FailureMessage(rag_result) \in
               {"Documents are not indexed.", "RAG system is not initialized.",
                "Cannot load ConversionService."}
        /\ retrieval_status = "not_called"
        /\ CallsTo("retrieve") = {}
        /\ CallsTo("qa_invoke") = {}
        /\ CallsTo("convert_text") = {}
        /\ CallsTo("load_vector_store") = {}

\* ask was called on a chain whose index did not load.
C16_Witness ==
    /\ RagReturned
    /\ rag_op = "ask"
    /\ ~is_initialized
    /\ rag_result = AskNotIndexed

\* C17: when adapt_user_style reports success, process_user_feedback returns
\* at once and the engine's process_user_feedback is not called; no call
\* returns the advanced result after having called the engine's mapping.
C17_AdvancedExcludesBasic ==
    /\ adapt_status = "succeeded" =>
           /\ rag_pc = "done"
           /\ feedback_status = "not_called"
           /\ CallsTo("process_user_feedback") = {}
    /\ (RagReturned /\ rag_op = "process_user_feedback"
            /\ CallsTo("process_user_feedback") # {}) =>
           adapt_status # "succeeded"

\* adapt_user_style was called and reported success.
C17_Witness ==
    /\ RagReturned
    /\ rag_op = "process_user_feedback"
    /\ adapt_status = "succeeded"
    /\ CallsTo("adapt_user_style") # {}
    /\ rag_result.success

\* C18: processing_method is "advanced" after a successful adaptation and
\* "basic" after the engine's feedback mapping.  AdvancedResult carries
\* "user_preferences_service" and the mapping's result is labelled
\* "conversion_service", so every returned feedback call violates this.
C18_Original ==
    (RagReturned /\ rag_op = "process_user_feedback") =>
        /\ adapt_status = "succeeded" =>
               rag_result.processing_method = "advanced"
        /\ feedback_status = "returned" =>
               rag_result.processing_method = "basic"

\* The preference service could not be obtained, or its adaptation reported
\* failure.
AdvancedUnavailable ==
    \/ "user_preferences_service" \notin services_cache
    \/ adapt_status = "failed"

\* C19 as stated: without a rating adapt_user_style is never called; with a
\* rating and the advanced path unavailable or unsuccessful, the engine's
\* feedback mapping is called exactly once.
C19_Original ==
    (RagReturned /\ rag_op = "process_user_feedback") =>
        /\ rag_args.rating = None => CallsTo("adapt_user_style") = {}
        /\ (rag_args.rating # None /\ AdvancedUnavailable) =>
               Cardinality(CallsTo("process_user_feedback")) = 1

\* C19: without a rating adapt_user_style is never called; with a rating and
\* the advanced path unavailable or unsuccessful, the engine's feedback
\* mapping is called exactly once if the conversion service can be obtained,
\* and not at all otherwise (the call then returns processing_method "none").
C19_RoutingOfFeedback ==
    (RagReturned /\ rag_op = "process_user_feedback") =>
        /\ rag_args.rating = None =>
               /\ CallsTo("adapt_user_style") = {}
               /\ adapt_status = "not_called"
        /\ (rag_args.rating # None /\ AdvancedUnavailable) =>
               IF "conversion_service" \in services_cache
               THEN Cardinality(CallsTo("process_user_feedback")) = 1
               ELSE /\ CallsTo("process_user_feedback") = {}
                    /\ rag_result.processing_method = "none"

\* A rated feedback whose adaptation reported failure went on to the engine.
C19_Witness ==
    /\ RagReturned
    /\ rag_op = "process_user_feedback"
    /\ rag_args.rating # None
    /\ adapt_status = "failed"
    /\ Cardinality(CallsTo("process_user_feedback")) = 1

\* C20: when the advanced path gave no result and the conversion service
\* cannot be obtained, process_user_feedback returns success=false with
\* processing_method "none" and the profile it was given as updated_profile.
C20_NoServiceKeepsProfile ==
    (RagReturned /\ rag_op = "process_user_feedback"
        /\ adapt_status \in {"not_called", "failed"}
        /\ "conversion_service" \notin services_cache) =>
        /\ Failed(rag_result)
        /\ rag_result.processing_method = "none"
        /\ rag_result.updated_profile = rag_args.user_profile
        /\ CallsTo("process_user_feedback") = {}

\* A rated feedback for which neither service could be obtained.
C20_Witness ==
    /\ RagReturned
    /\ rag_op = "process_user_feedback"
    /\ rag_args.rating # None
    /\ rag_args.user_profile # <<>>
    /\ services_cache = {}
    /\ rag_result.processing_method = "none"

\* The constructor of the service was run by the current call and raised.
LoadRaised(service_name) ==
    /\ \E i \in DOMAIN rag_trace : rag_trace[i] = Call("construct", service_name)
    /\ service_name \notin services_cache

ExceptionTexts == {e.message : e \in Exceptions}

\* C21 as stated: whenever a collaborator raised while loading, adapting or
\* mapping, process_user_feedback returns success=false with an error entry.
C21_Original ==
    (RagReturned /\ rag_op = "process_user_feedback"
        /\ (\/ LoadRaised("user_preferences_service")
            \/ LoadRaised("conversion_service")
            \/ adapt_status = "raised"
            \/ feedback_status = "raised")) =>
        /\ Failed(rag_result)
        /\ "error" \in DOMAIN rag_result

\* C21: process_user_feedback always returns a dictionary with a success
\* entry and lets no exception out.  An exception of adapt_user_style or of the
\* feedback mapping gives success=false, processing_method "error" and the
\* exception's text (which may be empty) as error; a conversion service whose
\* constructor raises gives success=false, processing_method "none" and a
\* non-empty error; a preference service whose constructor raises only sends
\* the call to the basic path, whose result is returned.
C21_FeedbackNeverRaises ==
    (rag_pc = "done" /\ rag_op = "process_user_feedback") =>
        /\ rag_exception = NoException
        /\ "success" \in DOMAIN rag_result
        /\ (adapt_status = "raised" \/ feedback_status = "raised") =>
               /\ Failed(rag_result)
               /\ rag_result.processing_method = "error"
               /\ "error" \in DOMAIN rag_result
               /\ rag_result.error \in ExceptionTexts
        /\ LoadRaised("conversion_service") =>
               /\ Failed(rag_result)
               /\ rag_result.processing_method = "none"
               /\ CarriesError(rag_result)
        /\ LoadRaised("user_preferences_service") =>
               /\ adapt_status = "not_called"
               /\ rag_result.processing_method \in
                      {"conversion_service", "none", "error"}

\* The preference service's constructor raised and the basic path succeeded.
C21_Witness ==
    /\ RagReturned
    /\ rag_op = "process_user_feedback"
    /\ LoadRaised("user_preferences_service")
    /\ feedback_status = "returned"
    /\ rag_result.success

\* The places where the text t occurs in the text s.
Occurrences(s, t) ==
    {i \in 1..(Len(s) - Len(t) + 1) : SubSeq(s, i, i + Len(t) - 1) = t}

FirstOccurrence(s, t) ==
    CHOOSE i \in Occurrences(s, t) : \A j \in Occurrences(s, t) : i <= j

\* The 1-based label of the i-th passage in the grounding block.
Label(i) == "[Reference Document " \o ToString(i) \o "]"

\* The text handed to convert_text by the current call.
GroundingBlock == rag_trace[CHOOSE i \in CallsTo("convert_text") : TRUE].arg

SucceededWithStyles ==
    /\ RagReturned
    /\ rag_op = "ask_with_styles"
    /\ "success" \in DOMAIN rag_result
    /\ rag_result.success

\* What C25 says of everything but the previews: one source per retrieved
\* passage, in retrieval order, ranked 1..n like the labels of the grounding
\* block, and the block holds every passage's whole text under its label.
SourcesFollowPassages ==
    /\ Cardinality(CallsTo("convert_text")) = 1
    /\ Len(rag_docs) >= 1
    /\ Len(rag_result.sources) = Len(rag_docs)
    /\ \A i \in 1..Len(rag_docs) :
           /\ rag_result.sources[i].rank = i
           /\ Cardinality(Occurrences(GroundingBlock, Label(i))) = 1
           /\ Occurrences(GroundingBlock,
                  Label(i) \o " (" \o rag_result.sources[i].source \o "):\n"
                      \o rag_docs[i].content) # {}
           /\ i > 1 => FirstOccurrence(GroundingBlock, Label(i - 1))
                           < FirstOccurrence(GroundingBlock, Label(i))
    /\ Occurrences(GroundingBlock, Label(Len(rag_docs) + 1)) = {}

\* C25 as stated: moreover each preview is the passage text cut to at most 100
\* characters.
C25_Original ==
    SucceededWithStyles =>
        /\ SourcesFollowPassages
        /\ \A i \in 1..Len(rag_docs) :
               /\ Len(rag_result.sources[i].content) <= 100
               /\ rag_result.sources[i].content =
                      SubSeq(rag_docs[i].content, 1,
                             Len(rag_result.sources[i].content))

\* C25: in a successful ask_with_styles result there is one source per
\* retrieved passage, in retrieval order, ranked 1..n like the labels of the
\* grounding block; the block handed to convert_text holds every passage's
\* whole text; a preview is the passage itself when it has at most 100
\* characters and otherwise its first 100 characters followed by "...".
C25_SourcesAndPreviews ==
    SucceededWithStyles =>
        /\ SourcesFollowPassages
        /\ \A i \in 1..Len(rag_docs) :
               LET text == rag_docs[i].content
                   preview == rag_result.sources[i].content
               IN  IF Len(text) <= 100
                   THEN preview = text
                   ELSE /\ Len(preview) = 103
                        /\ SubSeq(preview, 1, 100) = SubSeq(text, 1, 100)
                        /\ SubSeq(preview, 101, 103) = "..."

\* Two passages were retrieved, a long one after a short one.
C25_Witness ==
    /\ SucceededWithStyles
    /\ Len(rag_docs) = 2
    /\ rag_docs[1].content = ShortContent
    /\ rag_docs[2].content = LongContent
    /\ rag_result.sources[2].rank = 2
    /\ Len(rag_result.sources[2].content) = 103

\* C28: in every reachable state is_initialized implies that the vector
\* store and the retriever are both present, so get_status never raises.  A
\* reload that finds no index after a successful one breaks it: vectorstore
\* becomes None while is_initialized stays true.
C28_InitializedImpliesIndex ==
    /\ is_initialized => (vectorstore /\ retriever)
    /\ (rag_pc = "done" /\ rag_op = "get_status") =>
           rag_exception = NoException

\* C29: when adapt_user_style raises, process_user_feedback returns at once
\* with success false, processing_method "error" and the profile it was
\* given; the basic path is not entered and the conversion service's feedback
\* mapping is not called.
C29_AdaptRaisedIsTerminal ==
    (rag_op = "process_user_feedback" /\ adapt_status = "raised") =>
        /\ RagReturned
        /\ Failed(rag_result)
        /\ rag_result.processing_method = "error"
        /\ rag_result.updated_profile = rag_args.user_profile
        /\ feedback_status = "not_called"
        /\ CallsTo("process_user_feedback") = {}
        /\ \A i \in CallsTo("construct") :
               rag_trace[i].arg = "user_preferences_service"

\* adapt_user_style raised while the conversion service was already loaded, so
\* the basic path could have been taken.
C29_Witness ==
    /\ RagReturned
    /\ rag_op = "process_user_feedback"
    /\ adapt_status = "raised"
    /\ "conversion_service" \in services_cache
    /\ rag_args.user_profile # <<>>
    /\ rag_result.processing_method = "error"

\* The engine answered ask_with_styles, after passages were retrieved, with a
\* result whose success is false.
EngineReportedFailure ==
    /\ RagReturned
    /\ rag_op = "ask_with_styles"
    /\ rag_docs # <<>>
    /\ convert_response # NoResult
    /\ ~convert_response.raised
    /\ ~Get(convert_response.result, "success", FALSE)

\* C30: a result of the conversion engine with success false is returned by
\* ask_with_styles as it is: no sources, no context preview and no retrieval
\* metadata are added, and the variants are the engine's.
C30_FailedResultUnchanged ==
    EngineReportedFailure =>
        /\ rag_result = convert_response.result
        /\ "sources" \notin DOMAIN rag_result
        /\ "rag_context" \notin DOMAIN rag_result
        /\ "metadata" \in DOMAIN rag_result =>
               "documents_retrieved" \notin DOMAIN rag_result.metadata
        /\ rag_result.converted_texts = convert_response.result.converted_texts

\* The engine failed with one variant filled in and a metadata dictionary of
\* its own.
C30_Witness ==
    /\ EngineReportedFailure
    /\ Len(rag_docs) >= 2
    /\ "metadata" \in DOMAIN convert_response.result
    /\ rag_result.converted_texts = PartialVariants

-----------------------------------------------------------------------------
(* Properties of get_rag_service *)

\* C27: however concurrent first-time calls of get_rag_service interleave, the
\* service is constructed once, every caller receives the same instance, and
\* no caller holds an instance that the global no longer refers to.  Two
\* callers that both find the global empty break it: each constructs a
\* service and the second store replaces the first.
C27_ConstructedOnce ==
    /\ constructions <= 1
    /\ \A c \in Callers :
           callers[c].pc = "returned" => callers[c].got = instance
    /\ \A c, d \in Callers :
           (callers[c].pc = "returned" /\ callers[d].pc = "returned") =>
               callers[c].got = callers[d].got

-----------------------------------------------------------------------------
(* Properties of calls in flight at the same time *)

\* _get_service("conversion_service") hands out a service, given the cache
\* and what the constructor does if it is run.
ServiceHandedOut(seen, answers) ==
    \/ "conversion_service" \in seen.services_cache
    \/ rag_services_available /\ answers.constructed

\* What convert_to_formal returns when it runs alone on a chain with the same
\* two flags, given its arguments and the answers of the endpoint, the prompt
\* service and the generation service.
ConvertAlone(args, answers) ==
    LET d == Decide(args.user_profile, args.context, args.force_convert)
        primary == IF is_inference_server_available
                   THEN _generate_with_lora(args.input_text, answers.lora)
                   ELSE Returned(args.input_text)
        r == _refine_with_gpt(primary.value, args.input_text,
                              args.user_profile, args.context,
                              answers.pe, answers.gpt)
    IN  IF d.raised
        THEN [result |-> NoResult, exception |-> d.conversion_reason]
        ELSE [exception |-> NoException,
              result |->
                  IF ~d.should_convert THEN RejectedResult(d.conversion_reason)
                  ELSE IF primary.raised
                  THEN ErrorResult(primary.value, d.conversion_reason)
                  ELSE SuccessResult(r.value, primary.value,
                           IF is_inference_server_available THEN "lora_gpt"
                           ELSE "gpt_only",
                           d.conversion_reason, args.force_convert)]

\* What ask_with_styles returns when it runs alone: on the index the call
\* found and the service cache as it is without the other calls in flight,
\* given its arguments and the answers of the service's constructor, the
\* retriever and convert_text.
AskWithStylesAlone(args, seen, answers) ==
    LET failed(message) == StyleErrorResponse(message)
        styled == StyledResult(answers.convert.result, answers.retrieval.docs)
    IN  [exception |-> NoException,
         result |->
             IF ~ServiceHandedOut(seen, answers)
             THEN failed("Cannot load ConversionService.")
             ELSE IF ~seen.is_initialized
             THEN failed("RAG system is not initialized.")
             ELSE IF ~seen.retriever
             THEN failed("Error occurred during style conversion: "
                         \o "'NoneType' object has no attribute 'get_relevant_documents'")
             ELSE IF answers.retrieval.raised
             THEN failed("Error occurred during style conversion: "
                         \o answers.retrieval.message)
             ELSE IF answers.retrieval.docs = <<>>
             THEN failed("No related documents found.")
             ELSE IF answers.convert.raised
             THEN failed("Error occurred during style conversion: "
                         \o answers.convert.message)
             ELSE IF styled.raised
             THEN failed("Error occurred during style conversion: "
                         \o styled.value)
             ELSE styled.value]

\* What ask returns when it runs alone.
AskAlone(args, seen, answers) ==
    [exception |-> NoException,
     result |-> IF ~seen.is_initialized THEN AskNotIndexed
                ELSE IF answers.qa.raised THEN AskError(answers.qa.message)
                ELSE AskSuccess(answers.qa)]

Alone(f) ==
    IF f.op = "convert_to_formal" THEN ConvertAlone(f.args, f.answers)
    ELSE IF f.op = "ask_with_styles"
    THEN AskWithStylesAlone(f.args, f.seen, f.answers)
    ELSE AskAlone(f.args, f.seen, f.answers)

Outcome(f) == [result |-> f.result, exception |-> f.exception]

\* C26: under every interleaving of convert, ask and ask_with_styles calls at
\* their suspension points, each call returns what it returns running alone
\* with the same reachability flag, index state and collaborator answers.
\* The service cache breaks it: an ask_with_styles call that starts while
\* another one, which constructed the conversion service, is suspended uses
\* that service and answers, where alone it runs the constructor itself and,
\* when the constructor raises, returns "Cannot load ConversionService.".
C26_CallsIndependent ==
    \A s \in Slots : calls[s].pc = "done" => Outcome(calls[s]) = Alone(calls[s])

====
